---- MODULE Spec2Model ----
(***************************************************************************)
(* Order service (services/order): shopping cart, cart -> order            *)
(* conversion, order status changes, pickup tokens, cache-aside reads and  *)
(* queue notification.                                                     *)
(*                                                                         *)
(* Every handler of CartService / OrderService is a sequence of steps, one *)
(* per awaited store, cache or collaborator call.  A step is an operator   *)
(* from (world, request) to (world, request); the world is the record of   *)
(* all collections.  A handler run alone is the composition of its steps   *)
(* (Run); concurrent requests interleave single steps (StepReq).           *)
(*                                                                         *)
(* Abstracted: timestamps other than the calendar day of a token, display  *)
(* names, images, order_number, preparation-time estimates.  Money is kept *)
(* in hundredths (cents).                                                  *)
(***************************************************************************)
EXTENDS Integers, Sequences, FiniteSets, TLC

(* ------------------------------------------------------------------ *)
(* Bounds of the model                                                 *)
(* ------------------------------------------------------------------ *)
MaxCalls == 5
MaxOrders == 2
MaxCartCalls == 4
MaxLifeCalls == 5
MaxFirstAccesses == 3
MaxCacheCalls == 4
MaxQueueCalls == 4
MaxTotal == 45
MaxPageCalls == 1
MaxDay == 2
MaxDayCalls == 6
MaxDayOrders == 3
MaxRaceCalls == 3

(* ------------------------------------------------------------------ *)
(* Program constants                                                   *)
(* ------------------------------------------------------------------ *)
DEFAULT_TAX_PERCENTAGE == 5
MAX_QUANTITY_PER_ITEM == 50
TOKEN_PREFIX_OPTIONS == {"A", "B", "C", "D", "E"}

OrderStatus ==
  {"CART", "PENDING", "CONFIRMED", "PREPARING", "READY", "COMPLETED",
   "CANCELLED", "REFUNDED"}

PaymentStatus ==
  {"PENDING", "PROCESSING", "COMPLETED", "FAILED", "REFUNDED", "CANCELLED"}

(* Optional fields that are absent (None) *)
Null == "null"
NoRating == 0
NoQuantity == 0

(* ------------------------------------------------------------------ *)
(* Inputs                                                              *)
(* ------------------------------------------------------------------ *)
Users == {"u1", "u2"}
StaffUsers == {"s1"}
MenuItems == {"m1", "m2"}
Slots == {1, 2}

VARIABLES
  shopping_carts,            \* db.shopping_carts
  cart_items,                \* db.cart_items
  cart_item_customizations,  \* db.cart_item_customizations
  orders,                    \* db.orders
  order_items,               \* db.order_items
  order_item_customizations, \* db.order_item_customizations
  order_tokens,              \* db.order_tokens
  payments,                  \* db.payments
  order_timeline,            \* db.order_timeline, in insertion order
  order_item_feedback,       \* db.order_item_feedback, in insertion order
  redis,                     \* the cache: [cart: user -> view, order: id -> doc]
  redis_up,                  \* whether redis calls succeed
  queue,                     \* notification attempts made to the queue service
  queue_up,                  \* the queue service answers the POST
  menu,                      \* the catalog: item id -> price (cents)
  today,                     \* the calendar day
  uuid,                      \* uuid4 draws so far, per collection
  reqs,                      \* the requests in flight, per slot
  calls                      \* number of requests started

store_vars ==
  <<shopping_carts, cart_items, cart_item_customizations, orders, order_items,
    order_item_customizations, order_tokens, payments, order_timeline,
    order_item_feedback>>

vars ==
  <<shopping_carts, cart_items, cart_item_customizations, orders, order_items,
    order_item_customizations, order_tokens, payments, order_timeline,
    order_item_feedback, redis, redis_up, queue, queue_up, menu, today, uuid,
    reqs, calls>>

(* The world a step reads and writes *)
World ==
  [shopping_carts |-> shopping_carts,
   cart_items |-> cart_items,
   cart_item_customizations |-> cart_item_customizations,
   orders |-> orders,
   order_items |-> order_items,
   order_item_customizations |-> order_item_customizations,
   order_tokens |-> order_tokens,
   payments |-> payments,
   order_timeline |-> order_timeline,
   order_item_feedback |-> order_item_feedback,
   redis |-> redis,
   redis_up |-> redis_up,
   queue |-> queue,
   queue_up |-> queue_up,
   menu |-> menu,
   today |-> today,
   uuid |-> uuid]

Install(w) ==
  /\ shopping_carts' = w.shopping_carts
  /\ cart_items' = w.cart_items
  /\ cart_item_customizations' = w.cart_item_customizations
  /\ orders' = w.orders
  /\ order_items' = w.order_items
  /\ order_item_customizations' = w.order_item_customizations
  /\ order_tokens' = w.order_tokens
  /\ payments' = w.payments
  /\ order_timeline' = w.order_timeline
  /\ order_item_feedback' = w.order_item_feedback
  /\ redis' = w.redis
  /\ redis_up' = w.redis_up
  /\ queue' = w.queue
  /\ queue_up' = w.queue_up
  /\ menu' = w.menu
  /\ today' = w.today
  /\ uuid' = w.uuid

(* ------------------------------------------------------------------ *)
(* Requests                                                            *)
(* ------------------------------------------------------------------ *)
IdleReq ==
  [op |-> "idle", pc |-> "idle", result |-> Null, resp |-> {},
   \* arguments
   user_id |-> Null, order_id |-> 0, scope |-> {}, cart_item_id |-> 0,
   menu_item_id |-> Null, quantity |-> 0, customizations |-> {},
   customizations_given |-> FALSE, special_instructions |-> Null,
   status |-> Null, is_staff |-> FALSE, cancellation_reason |-> Null,
   rating |-> NoRating, feedback |-> Null, item_feedback |-> <<>>,
   auth_token |-> FALSE, prefix |-> Null, page |-> 0, page_size |-> 0,
   \* locals
   ret |-> Null, cart |-> {}, items |-> {}, customs |-> {}, order |-> {},
   menu_item |-> {}, existing_item |-> {}, token_number |-> 0,
   token_data |-> {}, cached |-> {}, idx |-> 0, sums |-> {}, total |-> 0,
   cursor |-> <<>>, page_orders |-> <<>>]

ClearLocals(r) ==
  [r EXCEPT !.ret = Null, !.cart = {}, !.items = {}, !.customs = {},
            !.order = {}, !.menu_item = {}, !.existing_item = {},
            !.token_number = 0, !.token_data = {}, !.cached = {}, !.idx = 0,
            !.sums = {}, !.total = 0, !.cursor = <<>>, !.page_orders = <<>>]

Running(r) == r.pc \notin {"idle", "done"}

Goto(w, r, pc) == [w |-> w, r |-> [r EXCEPT !.pc = pc]]

(* raise: the handler ends with an error and no response *)
Raise(w, r, err) ==
  [w |-> w, r |-> [ClearLocals(r) EXCEPT !.pc = "done", !.result = err]]

(* return: the handler ends with a response *)
Return(w, r, view) ==
  [w |-> w,
   r |-> [ClearLocals(r) EXCEPT !.pc = "done", !.result = "ok", !.resp = {view}]]

(* ------------------------------------------------------------------ *)
(* Store helpers                                                       *)
(* ------------------------------------------------------------------ *)
The(S) == CHOOSE x \in S : TRUE

(* find_one: the first matching document in natural (insertion) order *)
FindOne(S) ==
  IF S = {} THEN {} ELSE {CHOOSE d \in S : \A e \in S : d.id <= e.id}

(* position of d in S in natural order, 1-based *)
Rank(d, S) == Cardinality({e \in S : e.id <= d.id})

RECURSIVE SumOver(_, _)
SumOver(S, field) ==
  IF S = {} THEN 0
  ELSE LET d == The(S) IN d[field] + SumOver(S \ {d}, field)

(* ------------------------------------------------------------------ *)
(* utils.py                                                            *)
(* ------------------------------------------------------------------ *)

(* round(x, 2) of the amount num/den cents: to the nearest cent, a tie *)
(* to the even cent                                                    *)
Round2(num, den) ==
  LET q == num \div den
      rem == num % den
  IN IF 2 * rem < den THEN q
     ELSE IF 2 * rem > den THEN q + 1
     ELSE IF q % 2 = 0 THEN q ELSE q + 1

calculate_tax(subtotal) == Round2(subtotal * DEFAULT_TAX_PERCENTAGE, 100)

calculate_total(subtotal, tax) == Round2(subtotal + tax, 1)

(* f"{token_number:03d}": the decimal digits, zero-padded to 3 places *)
RECURSIVE Digits(_)
Digits(n) == IF n < 10 THEN <<n>> ELSE Append(Digits(n \div 10), n % 10)

ZeroPad3(n) ==
  LET d == Digits(n)
  IN IF Len(d) >= 3 THEN d
     ELSE IF Len(d) = 2 THEN <<0>> \o d
     ELSE <<0, 0>> \o d

(* generate_order_token: the prefix is drawn by random.choice *)
generate_order_token(token_number, prefix) ==
  [prefix |-> prefix, digits |-> ZeroPad3(token_number)]

(* variant: every value is encoded *)
serialize_datetime_Any(value) == TRUE

(* json.dumps(value, default=serialize_datetime): a datetime is encoded, *)
(* any other non-JSON value (the ObjectId a stored document carries    *)
(* under _id) raises TypeError                                         *)
serialize_datetime(value) == "mongo_id" \notin DOMAIN value

cache_get(w, kind, key) ==
  IF w.redis_up /\ key \in DOMAIN w.redis[kind]
  THEN {w.redis[kind][key]}
  ELSE {}

cache_set(w, kind, key, value) ==
  IF w.redis_up /\ serialize_datetime(value)
  THEN [w EXCEPT !.redis[kind] =
          [k \in (DOMAIN @) \cup {key} |-> IF k = key THEN value ELSE @[k]]]
  ELSE w

cache_delete(w, kind, key) ==
  IF w.redis_up
  THEN [w EXCEPT !.redis[kind] = [k \in (DOMAIN @) \ {key} |-> @[k]]]
  ELSE w

(* cache_delete_pattern("orders:{user_id}:*"): no key of the cache is   *)
(* written under "orders:"; "cart:{user}" and "order:{id}" do not match *)
cache_delete_pattern(w, user_id) == w

(* notify_queue_service: one POST is attempted; a timeout, a network   *)
(* error or an error response is logged or ignored, nothing is raised  *)
notify_queue_service(w, order_id) ==
  [w EXCEPT !.queue =
     Append(@, [order_id |-> order_id, delivered |-> w.queue_up])]

(* ------------------------------------------------------------------ *)
(* OrderService._add_timeline_entry, _get_next_token_number            *)
(* ------------------------------------------------------------------ *)
add_timeline_entry(w, order_id, status, updated_by) ==
  [w EXCEPT !.order_timeline =
     Append(@, [order_id |-> order_id, status |-> status,
                updated_by |-> updated_by])]

(* variant: every token ever issued is counted *)
get_next_token_number_AllDays(w) == Cardinality(w.order_tokens) + 1

get_next_token_number(w) ==
  Cardinality({t \in w.order_tokens : t.generated_at >= w.today}) + 1

TimelineOf(timeline, order_id) ==
  SelectSeq(timeline, LAMBDA e : e.order_id = order_id)

(* ------------------------------------------------------------------ *)
(* OrderService.get_order                                              *)
(* ------------------------------------------------------------------ *)
go_cache_get(w, r) ==
  LET cached == cache_get(w, "order", r.order_id)
  IN IF cached # {}
     THEN Goto(w, [r EXCEPT !.order = cached], "go_hydrate")
     ELSE Goto(w, r, "go_find_order")

go_find_order(w, r) ==
  LET order == FindOne({o \in w.orders :
                          /\ o.id = r.order_id
                          /\ (r.scope # {} => o.user_id \in r.scope)})
  IN IF order = {}
     THEN Raise(w, r, "Order not found")
     ELSE Goto(w, [r EXCEPT !.order = order], "go_cache_set")

go_cache_set(w, r) ==
  Goto(cache_set(w, "order", r.order_id, The(r.order)), r, "go_hydrate")

OrderResponse(w, order) ==
  [id |-> order.id, user_id |-> order.user_id, status |-> order.status,
   subtotal |-> order.subtotal, tax |-> order.tax, total |-> order.total,
   cancellation_reason |-> order.cancellation_reason,
   rating |-> order.rating, feedback |-> order.feedback,
   items |-> {[item |-> i,
               customizations |->
                 {c \in w.order_item_customizations : c.order_item_id = i.id}]
              : i \in {x \in w.order_items : x.order_id = order.id}},
   token |-> {t \in w.order_tokens : t.order_id = order.id},
   payment |-> {p \in w.payments : p.order_id = order.id},
   timeline |-> TimelineOf(w.order_timeline, order.id)]

go_hydrate(w, r) == Return(w, r, OrderResponse(w, The(r.order)))

GetOrderReq(order_id, scope) ==
  [IdleReq EXCEPT !.op = "get_order", !.pc = "go_cache_get",
                  !.order_id = order_id, !.scope = scope]

(* ------------------------------------------------------------------ *)
(* OrderService.get_my_orders and its router                           *)
(* ------------------------------------------------------------------ *)
RECURSIVE Run(_, _)

MyOrdersQuery(w, r) ==
  {o \in w.orders :
     o.user_id = r.user_id /\ (r.status # Null => o.status = r.status)}

gmo_count(w, r) ==
  Goto(w, [r EXCEPT !.total = Cardinality(MyOrdersQuery(w, r))], "gmo_find")

(* sort by created_at descending: the newest order, the highest id, first *)
RECURSIVE NewestFirst(_)
NewestFirst(S) ==
  IF S = {} THEN <<>>
  ELSE LET o == CHOOSE x \in S : \A y \in S : y.id <= x.id
       IN <<o.id>> \o NewestFirst(S \ {o})

(* cursor.skip(skip).limit(page_size) *)
SkipLimit(seq, skip, limit) ==
  SubSeq(seq, skip + 1,
         IF skip + limit < Len(seq) THEN skip + limit ELSE Len(seq))

gmo_find(w, r) ==
  LET skip == (r.page - 1) * r.page_size
  IN Goto(w, [r EXCEPT !.cursor = SkipLimit(NewestFirst(MyOrdersQuery(w, r)),
                                            skip, r.page_size),
                       !.page_orders = <<>>],
          "gmo_get_order")

(* the loop body: get_order(order["id"], user_id) for the next order;  *)
(* the router turns any exception into a 500                           *)
gmo_get_order(w, r) ==
  IF r.cursor = <<>>
  THEN Goto(w, r, "gmo_respond")
  ELSE LET sub == Run(w, GetOrderReq(Head(r.cursor), {r.user_id}))
       IN IF sub.r.result # "ok"
          THEN Raise(sub.w, r, "500")
          ELSE Goto(sub.w,
                    [r EXCEPT !.cursor = Tail(@),
                              !.page_orders = Append(@, The(sub.r.resp))],
                    "gmo_get_order")

PaginatedResponse_Floor(items, total, page, page_size) ==
  LET total_pages == total \div page_size
  IN [items |-> items, total |-> total, page |-> page,
      page_size |-> page_size, total_pages |-> total_pages,
      has_next |-> page < total_pages, has_prev |-> page > 1]

PaginatedResponse(items, total, page, page_size) ==
  LET total_pages == (total + page_size - 1) \div page_size
  IN [items |-> items, total |-> total, page |-> page,
      page_size |-> page_size, total_pages |-> total_pages,
      has_next |-> page < total_pages, has_prev |-> page > 1]

gmo_respond(w, r) ==
  Return(w, r, PaginatedResponse(r.page_orders, r.total, r.page, r.page_size))

(* ------------------------------------------------------------------ *)
(* OrderService.create_order                                           *)
(* ------------------------------------------------------------------ *)
CartIsEmpty(cart) == cart = {} \/ The(cart).item_count = 0

(* variant: the cart is looked up with get-or-create, so a user without *)
(* a cart gets one before the request is refused                       *)
co_find_cart_GetOrCreate(w, r) ==
  LET cart == FindOne({c \in w.shopping_carts : c.user_id = r.user_id})
      created == [id |-> w.uuid.cart + 1, user_id |-> r.user_id,
                  subtotal |-> 0, tax |-> 0,
                  tax_percentage |-> DEFAULT_TAX_PERCENTAGE, total |-> 0,
                  item_count |-> 0]
  IN IF cart = {}
     THEN Raise([w EXCEPT !.uuid.cart = @ + 1,
                          !.shopping_carts = @ \cup {created}],
                r, "Cart is empty")
     ELSE IF The(cart).item_count = 0
     THEN Raise(w, r, "Cart is empty")
     ELSE Goto(w, [r EXCEPT !.cart = cart], "co_find_items")

co_find_cart(w, r) ==
  LET cart == FindOne({c \in w.shopping_carts : c.user_id = r.user_id})
  IN IF CartIsEmpty(cart)
     THEN Raise(w, r, "Cart is empty")
     ELSE Goto(w, [r EXCEPT !.cart = cart], "co_find_items")

co_find_items(w, r) ==
  LET items == {i \in w.cart_items : i.cart_id = The(r.cart).id}
      customs == {c \in w.cart_item_customizations :
                    \E i \in items : c.cart_item_id = i.id}
  IN IF items = {}
     THEN Raise(w, r, "Cart is empty")
     ELSE Goto(w, [r EXCEPT !.items = items, !.customs = customs],
               "co_insert_order")

NewOrder(order_id, user_id, cart, special_instructions) ==
  [mongo_id |-> "ObjectId", id |-> order_id, user_id |-> user_id,
   status |-> "PENDING",
   subtotal |-> cart.subtotal, tax |-> cart.tax, total |-> cart.total,
   special_instructions |-> special_instructions,
   cancellation_reason |-> Null, rating |-> NoRating, feedback |-> Null]

co_insert_order(w, r) ==
  LET order_id == w.uuid.order + 1
      order == NewOrder(order_id, r.user_id, The(r.cart),
                        r.special_instructions)
  IN Goto([w EXCEPT !.uuid.order = order_id, !.orders = @ \cup {order}],
          [r EXCEPT !.order_id = order_id], "co_insert_items")

(* variant: the line total is recomputed instead of copied *)
NewOrderItem_Recomputed(order_item_id, order_id, cart_item) ==
  [id |-> order_item_id, order_id |-> order_id,
   menu_item_id |-> cart_item.menu_item_id,
   quantity |-> cart_item.quantity,
   unit_price |-> cart_item.unit_price,
   total_price |-> cart_item.unit_price * cart_item.quantity]

NewOrderItem(order_item_id, order_id, cart_item) ==
  [id |-> order_item_id, order_id |-> order_id,
   menu_item_id |-> cart_item.menu_item_id,
   quantity |-> cart_item.quantity,
   unit_price |-> cart_item.unit_price,
   total_price |-> cart_item.total_price]

co_insert_items(w, r) ==
  LET oiid(i) == w.uuid.order_item + Rank(i, r.items)
      new_items == {NewOrderItem(oiid(i), r.order_id, i) : i \in r.items}
      new_customs ==
        {[order_item_id |-> oiid(i), customization_id |-> c.customization_id]
           : <<i, c>> \in {p \in r.items \X r.customs :
                             p[2].cart_item_id = p[1].id}}
  IN Goto([w EXCEPT !.uuid.order_item = @ + Cardinality(r.items),
                    !.order_items = @ \cup new_items,
                    !.order_item_customizations = @ \cup new_customs],
          r, "co_count_tokens")

co_count_tokens(w, r) ==
  Goto(w, [r EXCEPT !.token_number = get_next_token_number(w)],
       "co_insert_token")

NewOrderToken(order_id, token_number, prefix, day) ==
  [order_id |-> order_id,
   token |-> generate_order_token(token_number, prefix),
   token_number |-> token_number, token_prefix |-> prefix,
   generated_at |-> day]

(* order_tokens has unique indexes on order_id and on token *)
TokenDuplicateKey(tokens, doc) ==
  \E t \in tokens : t.order_id = doc.order_id \/ t.token = doc.token

co_insert_token(w, r) ==
  LET doc == NewOrderToken(r.order_id, r.token_number, r.prefix, w.today)
  IN IF TokenDuplicateKey(w.order_tokens, doc)
     THEN Raise(w, r, "500")
     ELSE Goto([w EXCEPT !.order_tokens = @ \cup {doc}], r,
               "co_insert_payment")

NewPayment(order_id, cart) ==
  [order_id |-> order_id, status |-> "PENDING", amount |-> cart.total]

(* payments has a unique index on order_id *)
co_insert_payment(w, r) ==
  LET doc == NewPayment(r.order_id, The(r.cart))
  IN IF \E p \in w.payments : p.order_id = doc.order_id
     THEN Raise(w, r, "500")
     ELSE Goto([w EXCEPT !.payments = @ \cup {doc}], r, "co_timeline")

co_timeline(w, r) ==
  Goto(add_timeline_entry(w, r.order_id, "PENDING", r.user_id), r,
       "co_delete_cart_items")

co_delete_cart_items(w, r) ==
  Goto([w EXCEPT !.cart_items = {i \in @ : i.cart_id # The(r.cart).id}], r,
       "co_zero_cart")

(* variant: the count of items is left as it was *)
ZeroCart_KeepsCount(c) == [c EXCEPT !.subtotal = 0, !.tax = 0, !.total = 0]

ZeroCart(c) ==
  [c EXCEPT !.subtotal = 0, !.tax = 0, !.total = 0, !.item_count = 0]

co_zero_cart(w, r) ==
  Goto([w EXCEPT !.shopping_carts =
          {IF c.id = The(r.cart).id THEN ZeroCart(c) ELSE c : c \in @}],
       r, "co_cache_delete")

co_cache_delete(w, r) ==
  Goto(cache_delete(w, "cart", r.user_id), r, "co_cache_delete_pattern")

co_cache_delete_pattern(w, r) ==
  Goto(cache_delete_pattern(w, r.user_id), r, "co_notify")

(* variant: a notification that fails is surfaced to the caller *)
co_notify_Surfaced(w, r) ==
  IF r.auth_token /\ ~w.queue_up
  THEN Raise(notify_queue_service(w, r.order_id), r, "500")
  ELSE Goto(IF r.auth_token THEN notify_queue_service(w, r.order_id) ELSE w,
            [r EXCEPT !.scope = {r.user_id}], "go_cache_get")

co_notify(w, r) ==
  Goto(IF r.auth_token THEN notify_queue_service(w, r.order_id) ELSE w,
       [r EXCEPT !.scope = {r.user_id}], "go_cache_get")

(* ------------------------------------------------------------------ *)
(* routers/orders.py: update_order_status                              *)
(* ------------------------------------------------------------------ *)
check_staff_role(user_id) == user_id \in StaffUsers

(* the 403 raised for a non-staff caller is caught by the handler's own *)
(* except Exception and answered as 500                                 *)
route_uos(w, r) ==
  IF ~check_staff_role(r.user_id)
  THEN Raise(w, r, "500")
  ELSE Goto(w, [r EXCEPT !.is_staff = TRUE], "uos_find_order")

(* ------------------------------------------------------------------ *)
(* OrderService.update_order_status                                    *)
(* ------------------------------------------------------------------ *)
(* variant: the role is not checked *)
StaffOnly_Unchecked(is_staff, status) == FALSE

StaffOnly(is_staff, status) == ~is_staff /\ status \notin {"CANCELLED"}

uos_find_order(w, r) ==
  LET order == FindOne({o \in w.orders : o.id = r.order_id})
  IN IF order = {}
     THEN Raise(w, r, "Order not found")
     ELSE IF StaffOnly(r.is_staff, r.status)
     THEN Raise(w, r, "Only staff can change order status")
     ELSE Goto(w, [r EXCEPT !.order = order], "uos_update_order")

StatusUpdate(o, status) == [o EXCEPT !.status = status]

uos_update_order(w, r) ==
  Goto([w EXCEPT !.orders =
          {IF o.id = r.order_id THEN StatusUpdate(o, r.status) ELSE o
             : o \in @}],
       r, "uos_timeline")

(* variant: the status is updated without a timeline entry *)
uos_timeline_Skipped(w, r) == Goto(w, r, "uos_cache_delete")

uos_timeline(w, r) ==
  Goto(add_timeline_entry(w, r.order_id, r.status, r.user_id), r,
       "uos_cache_delete")

uos_cache_delete(w, r) ==
  Goto(cache_delete(w, "order", r.order_id), r, "uos_find_token")

uos_find_token(w, r) ==
  LET token_data == {t \in w.order_tokens : t.order_id = r.order_id}
  IN IF token_data # {}
     THEN Goto(w, [r EXCEPT !.token_data = token_data], "uos_notify")
     ELSE Goto(w, [r EXCEPT !.scope = {}], "go_cache_get")

uos_notify(w, r) ==
  Goto(notify_queue_service(w, r.order_id), [r EXCEPT !.scope = {}],
       "go_cache_get")

(* ------------------------------------------------------------------ *)
(* OrderService.cancel_order                                           *)
(* ------------------------------------------------------------------ *)
NotCancellable(status) == status \in {"COMPLETED", "CANCELLED", "REFUNDED"}

(* variant: the order is looked up by id alone *)
can_find_order_AnyOwner(w, r) ==
  LET order == FindOne({o \in w.orders : o.id = r.order_id})
  IN IF order = {}
     THEN Raise(w, r, "Order not found")
     ELSE IF NotCancellable(The(order).status)
     THEN Raise(w, r, "Order cannot be cancelled")
     ELSE Goto(w, [r EXCEPT !.order = order], "can_update_order")

can_find_order(w, r) ==
  LET order == FindOne({o \in w.orders :
                          o.id = r.order_id /\ o.user_id = r.user_id})
  IN IF order = {}
     THEN Raise(w, r, "Order not found")
     ELSE IF NotCancellable(The(order).status)
     THEN Raise(w, r, "Order cannot be cancelled")
     ELSE Goto(w, [r EXCEPT !.order = order], "can_update_order")

(* variant: cancelling also refunds, the order's total becomes 0 *)
CancelUpdate_ZeroTotal(o, reason) ==
  [o EXCEPT !.status = "CANCELLED", !.cancellation_reason = reason,
            !.total = 0]

CancelUpdate(o, reason) ==
  [o EXCEPT !.status = "CANCELLED", !.cancellation_reason = reason]

can_update_order(w, r) ==
  Goto([w EXCEPT !.orders =
          {IF o.id = r.order_id THEN CancelUpdate(o, r.cancellation_reason)
           ELSE o : o \in @}],
       r, "can_update_payment")

can_update_payment(w, r) ==
  Goto([w EXCEPT !.payments =
          {IF p.order_id = r.order_id THEN [p EXCEPT !.status = "CANCELLED"]
           ELSE p : p \in @}],
       r, "can_timeline")

can_timeline(w, r) ==
  Goto(add_timeline_entry(w, r.order_id, "CANCELLED", r.user_id), r,
       "can_cache_delete")

can_cache_delete(w, r) ==
  Goto(cache_delete(w, "order", r.order_id),
       [r EXCEPT !.scope = {r.user_id}], "go_cache_get")

(* ------------------------------------------------------------------ *)
(* OrderService.submit_feedback                                        *)
(* ------------------------------------------------------------------ *)
(* variant: any order may be rated *)
CanRate_Always(status) == TRUE

CanRate(status) == status = "COMPLETED"

fb_find_order(w, r) ==
  LET order == FindOne({o \in w.orders :
                          o.id = r.order_id /\ o.user_id = r.user_id})
  IN IF order = {}
     THEN Raise(w, r, "Order not found")
     ELSE IF ~CanRate(The(order).status)
     THEN Raise(w, r, "Can only rate completed orders")
     ELSE Goto(w, [r EXCEPT !.order = order], "fb_update_order")

FeedbackUpdate(o, rating, feedback) ==
  [o EXCEPT !.rating = rating, !.feedback = feedback]

fb_update_order(w, r) ==
  Goto([w EXCEPT !.orders =
          {IF o.id = r.order_id THEN FeedbackUpdate(o, r.rating, r.feedback)
           ELSE o : o \in @}],
       [r EXCEPT !.idx = 0], "fb_item_feedback")

ItemFeedbackInsert(coll, order_id, item_feedback) ==
  Append(coll, [order_id |-> order_id,
                order_item_id |-> item_feedback.order_item_id,
                rating |-> item_feedback.rating])

(* one insert_one per entry of request.item_feedback *)
fb_item_feedback(w, r) ==
  IF r.idx < Len(r.item_feedback)
  THEN Goto([w EXCEPT !.order_item_feedback =
               ItemFeedbackInsert(@, r.order_id, r.item_feedback[r.idx + 1])],
            [r EXCEPT !.idx = @ + 1], "fb_item_feedback")
  ELSE Goto(w, r, "fb_cache_delete")

fb_cache_delete(w, r) ==
  Goto(cache_delete(w, "order", r.order_id),
       [r EXCEPT !.scope = {r.user_id}], "go_cache_get")

(* ------------------------------------------------------------------ *)
(* utils.fetch_menu_item_details                                       *)
(* ------------------------------------------------------------------ *)
(* variant: an item the catalog does not resolve is taken as free *)
fetch_menu_item_details_Default(w, menu_item_id) ==
  IF menu_item_id \in DOMAIN w.menu
  THEN {[id |-> menu_item_id, price |-> w.menu[menu_item_id]]}
  ELSE {[id |-> menu_item_id, price |-> 0]}

(* None when the catalog does not answer with the item *)
fetch_menu_item_details(w, menu_item_id) ==
  IF menu_item_id \in DOMAIN w.menu
  THEN {[id |-> menu_item_id, price |-> w.menu[menu_item_id]]}
  ELSE {}

(* ------------------------------------------------------------------ *)
(* CartService.get_or_create_cart (continues at r.ret)                 *)
(* ------------------------------------------------------------------ *)
goc_find(w, r) ==
  LET cart == FindOne({c \in w.shopping_carts : c.user_id = r.user_id})
  IN IF cart # {}
     THEN Goto(w, [r EXCEPT !.cart = cart], r.ret)
     ELSE Goto(w, r, "goc_insert")

NewCart(cart_id, user_id) ==
  [id |-> cart_id, user_id |-> user_id, subtotal |-> 0, tax |-> 0,
   tax_percentage |-> DEFAULT_TAX_PERCENTAGE, total |-> 0, item_count |-> 0]

(* variant: the collection has no unique index on user_id *)
goc_insert_NoIndex(w, r) ==
  LET cart == NewCart(w.uuid.cart + 1, r.user_id)
  IN Goto([w EXCEPT !.uuid.cart = @ + 1, !.shopping_carts = @ \cup {cart}],
          [r EXCEPT !.cart = {cart}], r.ret)

(* shopping_carts has a unique index on user_id *)
goc_insert(w, r) ==
  LET cart == NewCart(w.uuid.cart + 1, r.user_id)
  IN IF \E c \in w.shopping_carts : c.user_id = r.user_id
     THEN Raise([w EXCEPT !.uuid.cart = @ + 1], r, "500")
     ELSE Goto([w EXCEPT !.uuid.cart = @ + 1,
                         !.shopping_carts = @ \cup {cart}],
               [r EXCEPT !.cart = {cart}], r.ret)

(* ------------------------------------------------------------------ *)
(* CartService.recalculate_cart (continues at r.ret)                   *)
(* ------------------------------------------------------------------ *)
rc_read(w, r) ==
  LET items == {i \in w.cart_items : i.cart_id = The(r.cart).id}
  IN Goto(w, [r EXCEPT !.sums = {[subtotal |-> SumOver(items, "total_price"),
                                  item_count |-> SumOver(items, "quantity")]}],
          "rc_write")

(* variant: the count of items is not refreshed *)
Recalculated_StaleCount(c, subtotal, item_count) ==
  LET tax == calculate_tax(subtotal)
  IN [c EXCEPT !.subtotal = subtotal, !.tax = tax,
               !.total = calculate_total(subtotal, tax)]

Recalculated(c, subtotal, item_count) ==
  LET tax == calculate_tax(subtotal)
  IN [c EXCEPT !.subtotal = subtotal, !.tax = tax,
               !.total = calculate_total(subtotal, tax),
               !.item_count = item_count]

rc_write(w, r) ==
  Goto([w EXCEPT !.shopping_carts =
          {IF c.id = The(r.cart).id
           THEN Recalculated(c, The(r.sums).subtotal, The(r.sums).item_count)
           ELSE c : c \in @}],
       r, r.ret)

(* ------------------------------------------------------------------ *)
(* CartService.get_cart                                                *)
(* ------------------------------------------------------------------ *)
gc_cache_get(w, r) ==
  LET cached == cache_get(w, "cart", r.user_id)
  IN IF cached # {}
     THEN Return(w, r, The(cached))
     ELSE Goto(w, [r EXCEPT !.ret = "gc_read_items"], "goc_find")

CartResponse(w, cart) ==
  [id |-> cart.id, user_id |-> cart.user_id, subtotal |-> cart.subtotal,
   tax |-> cart.tax, tax_percentage |-> cart.tax_percentage,
   total |-> cart.total, item_count |-> cart.item_count,
   items |-> {[item |-> i,
               customizations |->
                 {c.customization_id : c \in
                    {x \in w.cart_item_customizations : x.cart_item_id = i.id}}]
              : i \in {x \in w.cart_items : x.cart_id = cart.id}}]

gc_read_items(w, r) ==
  Goto(w, [r EXCEPT !.cached = {CartResponse(w, The(r.cart))}],
       "gc_cache_set")

gc_cache_set(w, r) ==
  Return(cache_set(w, "cart", r.user_id, The(r.cached)), r, The(r.cached))

(* ------------------------------------------------------------------ *)
(* CartService.add_to_cart                                             *)
(* ------------------------------------------------------------------ *)
atc_fetch_menu(w, r) ==
  LET menu_item == fetch_menu_item_details(w, r.menu_item_id)
  IN IF menu_item = {}
     THEN Raise(w, r, "Menu item not found")
     ELSE Goto(w, [r EXCEPT !.menu_item = menu_item], "atc_find_existing")

(* variant: no quantity is too large *)
OverMaxQuantity_Never(quantity) == FALSE

OverMaxQuantity(quantity) == quantity > MAX_QUANTITY_PER_ITEM

atc_find_existing(w, r) ==
  LET existing_item == FindOne({i \in w.cart_items :
                                  /\ i.cart_id = The(r.cart).id
                                  /\ i.menu_item_id = r.menu_item_id})
  IN IF existing_item = {}
     THEN Goto(w, r, "atc_insert_item")
     ELSE IF OverMaxQuantity(The(existing_item).quantity + r.quantity)
     THEN Raise(w, r, "Maximum quantity per item is 50")
     ELSE Goto(w, [r EXCEPT !.existing_item = existing_item],
               "atc_update_existing")

(* variant: the stored quantity is incremented by the requested one *)
atc_update_existing_Inc(w, r) ==
  Goto([w EXCEPT !.cart_items =
          {IF i.id = The(r.existing_item).id
           THEN [i EXCEPT !.quantity = @ + r.quantity,
                          !.total_price =
                            The(r.menu_item).price * (i.quantity + r.quantity)]
           ELSE i : i \in @}],
       [r EXCEPT !.cart_item_id = The(r.existing_item).id],
       "atc_customizations")

atc_update_existing(w, r) ==
  LET new_quantity == The(r.existing_item).quantity + r.quantity
      total_price == The(r.menu_item).price * new_quantity
  IN Goto([w EXCEPT !.cart_items =
             {IF i.id = The(r.existing_item).id
              THEN [i EXCEPT !.quantity = new_quantity,
                             !.total_price = total_price]
              ELSE i : i \in @}],
          [r EXCEPT !.cart_item_id = The(r.existing_item).id],
          "atc_customizations")

NewCartItem(cart_item_id, cart_id, menu_item, quantity) ==
  [id |-> cart_item_id, cart_id |-> cart_id, menu_item_id |-> menu_item.id,
   quantity |-> quantity, unit_price |-> menu_item.price,
   total_price |-> menu_item.price * quantity]

atc_insert_item(w, r) ==
  LET cart_item_id == w.uuid.cart_item + 1
      cart_item == NewCartItem(cart_item_id, The(r.cart).id,
                               The(r.menu_item), r.quantity)
  IN Goto([w EXCEPT !.uuid.cart_item = cart_item_id,
                    !.cart_items = @ \cup {cart_item}],
          [r EXCEPT !.cart_item_id = cart_item_id], "atc_customizations")

(* if request.customizations: delete_many, then one insert_one each *)
ReplaceCustomizations(w, cart_item_id, customizations) ==
  LET kept == {c \in w.cart_item_customizations :
                 c.cart_item_id # cart_item_id}
      new == {[cart_item_id |-> cart_item_id, customization_id |-> c]
                : c \in customizations}
  IN [w EXCEPT !.cart_item_customizations = kept \cup new]

atc_customizations(w, r) ==
  Goto(IF r.customizations # {}
       THEN ReplaceCustomizations(w, r.cart_item_id, r.customizations)
       ELSE w,
       [r EXCEPT !.ret = "atc_cache_delete"], "rc_read")

(* variant: the cached cart is not invalidated *)
atc_cache_delete_Skipped(w, r) == Goto(w, r, "gc_cache_get")

atc_cache_delete(w, r) ==
  Goto(cache_delete(w, "cart", r.user_id), r, "gc_cache_get")

(* ------------------------------------------------------------------ *)
(* CartService.update_cart_item                                        *)
(* ------------------------------------------------------------------ *)
uci_find_item(w, r) ==
  LET cart_item == FindOne({i \in w.cart_items :
                              /\ i.id = r.cart_item_id
                              /\ i.cart_id = The(r.cart).id})
  IN IF cart_item = {}
     THEN Raise(w, r, "Cart item not found")
     ELSE IF r.quantity # NoQuantity /\ OverMaxQuantity(r.quantity)
     THEN Raise(w, r, "Maximum quantity per item is 50")
     ELSE Goto(w, [r EXCEPT !.existing_item = cart_item], "uci_update_item")

UpdatedCartItem(i, quantity) ==
  [i EXCEPT !.quantity = quantity, !.total_price = i.unit_price * quantity]

uci_update_item(w, r) ==
  Goto(IF r.quantity # NoQuantity
       THEN [w EXCEPT !.cart_items =
               {IF i.id = r.cart_item_id
                THEN UpdatedCartItem(The(r.existing_item), r.quantity)
                ELSE i : i \in @}]
       ELSE w,
       r, "uci_customizations")

(* if request.customizations is not None: delete_many, then the inserts *)
uci_customizations(w, r) ==
  Goto(IF r.customizations_given
       THEN ReplaceCustomizations(w, r.cart_item_id, r.customizations)
       ELSE w,
       [r EXCEPT !.ret = "uci_cache_delete"], "rc_read")

uci_cache_delete(w, r) ==
  Goto(cache_delete(w, "cart", r.user_id), r, "gc_cache_get")

(* ------------------------------------------------------------------ *)
(* CartService.remove_cart_item                                        *)
(* ------------------------------------------------------------------ *)
(* variant: the filter does not name the cart *)
RemoveFilter_AnyCart(lines, cart_item_id, cart_id) ==
  {i \in lines : i.id = cart_item_id}

(* delete_one({id, cart_id}): the lines the filter matches *)
RemoveFilter(lines, cart_item_id, cart_id) ==
  {i \in lines : i.id = cart_item_id /\ i.cart_id = cart_id}

rci_delete_item(w, r) ==
  LET hit == FindOne(RemoveFilter(w.cart_items, r.cart_item_id,
                                  The(r.cart).id))
  IN IF hit = {}
     THEN Raise(w, r, "Cart item not found")
     ELSE Goto([w EXCEPT !.cart_items = @ \ hit],
               [r EXCEPT !.ret = "rci_cache_delete"], "rc_read")

rci_cache_delete(w, r) ==
  Goto(cache_delete(w, "cart", r.user_id), r, "gc_cache_get")

(* ------------------------------------------------------------------ *)
(* CartService.clear_cart                                              *)
(* ------------------------------------------------------------------ *)
(* variant: the lines are kept *)
ClearedLines_None(lines, cart_id) == lines

ClearedLines(lines, cart_id) == {i \in lines : i.cart_id # cart_id}

cc_delete_items(w, r) ==
  Goto([w EXCEPT !.cart_items = ClearedLines(@, The(r.cart).id)],
       r, "cc_zero_cart")

cc_zero_cart(w, r) ==
  Goto([w EXCEPT !.shopping_carts =
          {IF c.id = The(r.cart).id THEN ZeroCart(c) ELSE c : c \in @}],
       r, "cc_cache_delete")

cc_cache_delete(w, r) ==
  Return(cache_delete(w, "cart", r.user_id), r, [cleared |-> TRUE])

(* ------------------------------------------------------------------ *)
(* One step of a request; a handler run to its end                     *)
(* ------------------------------------------------------------------ *)
StepReq(w, r) ==
  CASE r.pc = "go_cache_get" -> go_cache_get(w, r)
    [] r.pc = "go_find_order" -> go_find_order(w, r)
    [] r.pc = "go_cache_set" -> go_cache_set(w, r)
    [] r.pc = "go_hydrate" -> go_hydrate(w, r)
    [] r.pc = "gmo_count" -> gmo_count(w, r)
    [] r.pc = "gmo_find" -> gmo_find(w, r)
    [] r.pc = "gmo_get_order" -> gmo_get_order(w, r)
    [] r.pc = "gmo_respond" -> gmo_respond(w, r)
    [] r.pc = "co_find_cart" -> co_find_cart(w, r)
    [] r.pc = "co_find_items" -> co_find_items(w, r)
    [] r.pc = "co_insert_order" -> co_insert_order(w, r)
    [] r.pc = "co_insert_items" -> co_insert_items(w, r)
    [] r.pc = "co_count_tokens" -> co_count_tokens(w, r)
    [] r.pc = "co_insert_token" -> co_insert_token(w, r)
    [] r.pc = "co_insert_payment" -> co_insert_payment(w, r)
    [] r.pc = "co_timeline" -> co_timeline(w, r)
    [] r.pc = "co_delete_cart_items" -> co_delete_cart_items(w, r)
    [] r.pc = "co_zero_cart" -> co_zero_cart(w, r)
    [] r.pc = "co_cache_delete" -> co_cache_delete(w, r)
    [] r.pc = "co_cache_delete_pattern" -> co_cache_delete_pattern(w, r)
    [] r.pc = "co_notify" -> co_notify(w, r)
    [] r.pc = "route_uos" -> route_uos(w, r)
    [] r.pc = "uos_find_order" -> uos_find_order(w, r)
    [] r.pc = "uos_update_order" -> uos_update_order(w, r)
    [] r.pc = "uos_timeline" -> uos_timeline(w, r)
    [] r.pc = "uos_cache_delete" -> uos_cache_delete(w, r)
    [] r.pc = "uos_find_token" -> uos_find_token(w, r)
    [] r.pc = "uos_notify" -> uos_notify(w, r)
    [] r.pc = "can_find_order" -> can_find_order(w, r)
    [] r.pc = "can_update_order" -> can_update_order(w, r)
    [] r.pc = "can_update_payment" -> can_update_payment(w, r)
    [] r.pc = "can_timeline" -> can_timeline(w, r)
    [] r.pc = "can_cache_delete" -> can_cache_delete(w, r)
    [] r.pc = "fb_find_order" -> fb_find_order(w, r)
    [] r.pc = "fb_update_order" -> fb_update_order(w, r)
    [] r.pc = "fb_item_feedback" -> fb_item_feedback(w, r)
    [] r.pc = "fb_cache_delete" -> fb_cache_delete(w, r)
    [] r.pc = "goc_find" -> goc_find(w, r)
    [] r.pc = "goc_insert" -> goc_insert(w, r)
    [] r.pc = "rc_read" -> rc_read(w, r)
    [] r.pc = "rc_write" -> rc_write(w, r)
    [] r.pc = "gc_cache_get" -> gc_cache_get(w, r)
    [] r.pc = "gc_read_items" -> gc_read_items(w, r)
    [] r.pc = "gc_cache_set" -> gc_cache_set(w, r)
    [] r.pc = "atc_fetch_menu" -> atc_fetch_menu(w, r)
    [] r.pc = "atc_find_existing" -> atc_find_existing(w, r)
    [] r.pc = "atc_update_existing" -> atc_update_existing(w, r)
    [] r.pc = "atc_insert_item" -> atc_insert_item(w, r)
    [] r.pc = "atc_customizations" -> atc_customizations(w, r)
    [] r.pc = "atc_cache_delete" -> atc_cache_delete(w, r)
    [] r.pc = "uci_find_item" -> uci_find_item(w, r)
    [] r.pc = "uci_update_item" -> uci_update_item(w, r)
    [] r.pc = "uci_customizations" -> uci_customizations(w, r)
    [] r.pc = "uci_cache_delete" -> uci_cache_delete(w, r)
    [] r.pc = "rci_delete_item" -> rci_delete_item(w, r)
    [] r.pc = "rci_cache_delete" -> rci_cache_delete(w, r)
    [] r.pc = "cc_delete_items" -> cc_delete_items(w, r)
    [] r.pc = "cc_zero_cart" -> cc_zero_cart(w, r)
    [] r.pc = "cc_cache_delete" -> cc_cache_delete(w, r)

Run(w, r) ==
  IF ~Running(r) THEN [w |-> w, r |-> r]
  ELSE LET o == StepReq(w, r) IN Run(o.w, o.r)

(* ------------------------------------------------------------------ *)
(* Requests as the routers build them                                  *)
(* ------------------------------------------------------------------ *)
AddToCartReq(user_id, menu_item_id, quantity, customizations) ==
  [IdleReq EXCEPT !.op = "add_to_cart", !.pc = "goc_find",
                  !.ret = "atc_fetch_menu", !.user_id = user_id,
                  !.menu_item_id = menu_item_id, !.quantity = quantity,
                  !.customizations = customizations]

CreateOrderReq(user_id, auth_token, prefix) ==
  [IdleReq EXCEPT !.op = "create_order", !.pc = "co_find_cart",
                  !.user_id = user_id, !.auth_token = auth_token,
                  !.prefix = prefix]

GetMyOrdersReq(user_id, status, page, page_size) ==
  [IdleReq EXCEPT !.op = "get_my_orders", !.pc = "gmo_count",
                  !.user_id = user_id, !.status = status, !.page = page,
                  !.page_size = page_size]

UpdateOrderStatusReq(order_id, status, updated_by, is_staff) ==
  [IdleReq EXCEPT !.op = "update_order_status", !.pc = "uos_find_order",
                  !.order_id = order_id, !.status = status,
                  !.user_id = updated_by, !.is_staff = is_staff]

RouteUpdateOrderStatusReq(order_id, status, user_id) ==
  [IdleReq EXCEPT !.op = "route_update_order_status", !.pc = "route_uos",
                  !.order_id = order_id, !.status = status,
                  !.user_id = user_id]

CancelOrderReq(order_id, user_id, cancellation_reason) ==
  [IdleReq EXCEPT !.op = "cancel_order", !.pc = "can_find_order",
                  !.order_id = order_id, !.user_id = user_id,
                  !.cancellation_reason = cancellation_reason]

SubmitFeedbackReq(order_id, user_id, rating, feedback, item_feedback) ==
  [IdleReq EXCEPT !.op = "submit_feedback", !.pc = "fb_find_order",
                  !.order_id = order_id, !.user_id = user_id,
                  !.rating = rating, !.feedback = feedback,
                  !.item_feedback = item_feedback]

GetCartReq(user_id) ==
  [IdleReq EXCEPT !.op = "get_cart", !.pc = "gc_cache_get",
                  !.user_id = user_id]

UpdateCartItemReq(user_id, cart_item_id, quantity, given, customizations) ==
  [IdleReq EXCEPT !.op = "update_cart_item", !.pc = "goc_find",
                  !.ret = "uci_find_item", !.user_id = user_id,
                  !.cart_item_id = cart_item_id, !.quantity = quantity,
                  !.customizations_given = given,
                  !.customizations = customizations]

RemoveCartItemReq(user_id, cart_item_id) ==
  [IdleReq EXCEPT !.op = "remove_cart_item", !.pc = "goc_find",
                  !.ret = "rci_delete_item", !.user_id = user_id,
                  !.cart_item_id = cart_item_id]

ClearCartReq(user_id) ==
  [IdleReq EXCEPT !.op = "clear_cart", !.pc = "goc_find",
                  !.ret = "cc_delete_items", !.user_id = user_id]

(* ------------------------------------------------------------------ *)
(* Initial state: empty store and cache, first day                     *)
(* ------------------------------------------------------------------ *)
EmptyMap == [k \in {} |-> Null]

MenuPrices == [m \in MenuItems |-> IF m = "m1" THEN 10000 ELSE 250]

Init ==
  /\ shopping_carts = {}
  /\ cart_items = {}
  /\ cart_item_customizations = {}
  /\ orders = {}
  /\ order_items = {}
  /\ order_item_customizations = {}
  /\ order_tokens = {}
  /\ payments = {}
  /\ order_timeline = <<>>
  /\ order_item_feedback = <<>>
  /\ redis = [cart |-> EmptyMap, order |-> EmptyMap]
  /\ redis_up = TRUE
  /\ queue = <<>>
  /\ queue_up = TRUE
  /\ menu = MenuPrices
  /\ today = 1
  /\ uuid = [cart |-> 0, cart_item |-> 0, order |-> 0, order_item |-> 0]
  /\ reqs = [s \in Slots |-> IdleReq]
  /\ calls = 0

(* ------------------------------------------------------------------ *)
(* A request served alone, from call to return                         *)
(* ------------------------------------------------------------------ *)
Call(s, r0) ==
  /\ calls < MaxCalls
  /\ \A t \in Slots : reqs[t].pc = "idle"
  /\ LET out == Run(World, r0)
     IN /\ Install(out.w)
        /\ reqs' = [reqs EXCEPT ![s] = out.r]
  /\ calls' = calls + 1

(* Concurrent service: a request is accepted, then advances step by step *)
Begin(s, r0) ==
  /\ calls < MaxCalls
  /\ reqs[s].pc = "idle"
  /\ reqs' = [reqs EXCEPT ![s] = r0]
  /\ calls' = calls + 1
  /\ UNCHANGED <<store_vars, redis, redis_up, queue, queue_up, menu, today,
               uuid>>

Step(s) ==
  /\ Running(reqs[s])
  /\ LET out == StepReq(World, reqs[s])
     IN /\ Install(out.w)
        /\ reqs' = [reqs EXCEPT ![s] = out.r]
  /\ UNCHANGED calls

(* The response is delivered and the slot is free again *)
Respond ==
  \E s \in Slots :
    /\ reqs[s].pc = "done"
    /\ reqs' = [reqs EXCEPT ![s] = IdleReq]
    /\ UNCHANGED <<store_vars, redis, redis_up, queue, queue_up, menu, today,
                   uuid,
                   calls>>

(* ------------------------------------------------------------------ *)
(* Inputs of the sequential specification                              *)
(* ------------------------------------------------------------------ *)
Quantities == {1, 2}
PrefixInputs == {"A", "B"}
OrderIds == 1..MaxOrders
Reasons == {"late"}
StatusActors == {"u1", "s1"}
FeedbackInputs ==
  {[rating |-> 5, feedback |-> "good", item_feedback |-> <<>>],
   [rating |-> 2, feedback |-> Null,
    item_feedback |-> <<[order_item_id |-> 1, rating |-> 4]>>]}

AddToCart ==
  \E u \in Users, m \in MenuItems, q \in Quantities :
    Call(1, AddToCartReq(u, m, q, {}))

CreateOrder ==
  \E u \in Users, p \in PrefixInputs :
    /\ uuid.order < MaxOrders
    /\ Call(1, CreateOrderReq(u, TRUE, p))

GetOrder ==
  \E o \in OrderIds, scope \in {{}} \cup {{u} : u \in Users} :
    Call(1, GetOrderReq(o, scope))

UpdateOrderStatus ==
  \E o \in OrderIds, st \in OrderStatus, by \in StatusActors :
    Call(1, UpdateOrderStatusReq(o, st, by, check_staff_role(by)))

RouteUpdateOrderStatus ==
  \E o \in OrderIds, st \in OrderStatus, by \in StatusActors :
    Call(1, RouteUpdateOrderStatusReq(o, st, by))

CancelOrder ==
  \E o \in OrderIds, u \in Users, reason \in Reasons :
    Call(1, CancelOrderReq(o, u, reason))

SubmitFeedback ==
  \E o \in OrderIds, u \in Users, f \in FeedbackInputs :
    Call(1, SubmitFeedbackReq(o, u, f.rating, f.feedback, f.item_feedback))

Next ==
  \/ AddToCart
  \/ CreateOrder
  \/ GetOrder
  \/ UpdateOrderStatus
  \/ RouteUpdateOrderStatus
  \/ CancelOrder
  \/ SubmitFeedback
  \/ Respond

Spec == Init /\ [][Next]_vars

(* ------------------------------------------------------------------ *)
(* Concurrent order creation: carts are filled by requests served      *)
(* alone, create_order requests interleave step by step                *)
(* ------------------------------------------------------------------ *)
ConcAddToCart ==
  \E u \in Users : Call(1, AddToCartReq(u, "m1", 1, {}))

BeginCreateOrder ==
  \E s \in Slots, u \in Users, p \in PrefixInputs :
    /\ uuid.order < MaxOrders
    /\ Begin(s, CreateOrderReq(u, TRUE, p))

StepCreateOrder ==
  \E s \in Slots : reqs[s].op = "create_order" /\ Step(s)

NextConc ==
  \/ ConcAddToCart
  \/ BeginCreateOrder
  \/ StepCreateOrder
  \/ Respond

SpecConc == Init /\ [][NextConc]_vars

(* ------------------------------------------------------------------ *)
(* The cart endpoints, each request served alone, while the catalog    *)
(* changes between requests                                            *)
(* ------------------------------------------------------------------ *)
AddInputs ==
  {[menu_item_id |-> "m1", quantity |-> 1, customizations |-> {}],
   [menu_item_id |-> "m1", quantity |-> 30, customizations |-> {"c1"}],
   [menu_item_id |-> "m2", quantity |-> 1, customizations |-> {}]}
LineIds == 1..2
UpdateInputs ==
  {[quantity |-> 2, given |-> FALSE, customizations |-> {}],
   [quantity |-> NoQuantity, given |-> TRUE, customizations |-> {}]}

(* m1 dearer and m2 withdrawn *)
RaisedPrices == [m \in {"m1"} |-> 12000]

(* the catalogs the menu service may answer from; the empty one is the *)
(* service failing or timing out                                       *)
Catalogs == {MenuPrices, RaisedPrices, EmptyMap}

CatalogChange ==
  /\ \A s \in Slots : reqs[s].pc = "idle"
  /\ \E c \in Catalogs \ {menu} : menu' = c
  /\ UNCHANGED <<store_vars, redis, redis_up, queue, queue_up, today, uuid, reqs,
               calls>>

CartAdd ==
  \E u \in Users, i \in AddInputs :
    /\ calls < MaxCartCalls
    /\ Call(1, AddToCartReq(u, i.menu_item_id, i.quantity, i.customizations))

CartUpdate ==
  \E u \in Users, id \in LineIds, i \in UpdateInputs :
    /\ calls < MaxCartCalls
    /\ Call(1, UpdateCartItemReq(u, id, i.quantity, i.given,
                                 i.customizations))

CartRemove ==
  \E u \in Users, id \in LineIds :
    /\ calls < MaxCartCalls
    /\ Call(1, RemoveCartItemReq(u, id))

CartClear ==
  \E u \in Users :
    /\ calls < MaxCartCalls
    /\ Call(1, ClearCartReq(u))

CartGet ==
  \E u \in Users :
    /\ calls < MaxCartCalls
    /\ Call(1, GetCartReq(u))

CartCreateOrder ==
  \E u \in Users :
    /\ calls < MaxCartCalls
    /\ uuid.order < MaxOrders
    /\ Call(1, CreateOrderReq(u, TRUE, "A"))

NextCart ==
  \/ CartAdd
  \/ CartUpdate
  \/ CartRemove
  \/ CartClear
  \/ CartGet
  \/ CartCreateOrder
  \/ CatalogChange
  \/ Respond

SpecCart == Init /\ [][NextCart]_vars

(* ------------------------------------------------------------------ *)
(* The life of one customer's orders: the customer fills and edits the *)
(* cart and orders, staff move the order on, the customer cancels or   *)
(* rates it, and the catalog changes meanwhile                         *)
(* ------------------------------------------------------------------ *)
LifeStatuses == {"CONFIRMED", "COMPLETED", "CANCELLED"}

LifeAdd ==
  \E cs \in {{}, {"c1"}} :
    /\ calls < MaxLifeCalls
    /\ Call(1, AddToCartReq("u1", "m1", 1, cs))

LifeUpdateCart ==
  \E id \in LineIds :
    /\ calls < MaxLifeCalls
    /\ Call(1, UpdateCartItemReq("u1", id, 2, FALSE, {}))

LifeRemoveCart ==
  \E id \in LineIds :
    /\ calls < MaxLifeCalls
    /\ Call(1, RemoveCartItemReq("u1", id))

LifeCreateOrder ==
  /\ calls < MaxLifeCalls
  /\ uuid.order < MaxOrders
  /\ Call(1, CreateOrderReq("u1", TRUE, "A"))

LifeUpdateStatus ==
  \E o \in OrderIds, st \in LifeStatuses :
    /\ calls < MaxLifeCalls
    /\ Call(1, UpdateOrderStatusReq(o, st, "s1", TRUE))

LifeCancel ==
  \E o \in OrderIds :
    /\ calls < MaxLifeCalls
    /\ Call(1, CancelOrderReq(o, "u1", "late"))

LifeFeedback ==
  \E o \in OrderIds, f \in FeedbackInputs :
    /\ calls < MaxLifeCalls
    /\ Call(1, SubmitFeedbackReq(o, "u1", f.rating, f.feedback,
                                 f.item_feedback))

NextLife ==
  \/ LifeAdd
  \/ LifeUpdateCart
  \/ LifeRemoveCart
  \/ LifeCreateOrder
  \/ LifeUpdateStatus
  \/ LifeCancel
  \/ LifeFeedback
  \/ CatalogChange
  \/ Respond

SpecLife == Init /\ [][NextLife]_vars

(* ------------------------------------------------------------------ *)
(* Concurrent cart accesses: get_cart and add_to_cart requests of the  *)
(* users interleave step by step                                       *)
(* ------------------------------------------------------------------ *)
CartAccesses ==
  {GetCartReq(u) : u \in Users}
    \cup {AddToCartReq(u, "m1", 1, {}) : u \in Users}

BeginCartAccess ==
  \E s \in Slots, r \in CartAccesses :
    /\ calls < MaxFirstAccesses
    /\ Begin(s, r)

StepCartAccess ==
  \E s \in Slots : reqs[s].op \in {"get_cart", "add_to_cart"} /\ Step(s)

NextCartConc ==
  \/ BeginCartAccess
  \/ StepCartAccess
  \/ Respond

SpecCartConc == Init /\ [][NextCartConc]_vars

(* ------------------------------------------------------------------ *)
(* The service with a cache that works, loses its entries, or is down  *)
(* for the whole run                                                   *)
(* ------------------------------------------------------------------ *)
InitCache ==
  /\ shopping_carts = {}
  /\ cart_items = {}
  /\ cart_item_customizations = {}
  /\ orders = {}
  /\ order_items = {}
  /\ order_item_customizations = {}
  /\ order_tokens = {}
  /\ payments = {}
  /\ order_timeline = <<>>
  /\ order_item_feedback = <<>>
  /\ redis = [cart |-> EmptyMap, order |-> EmptyMap]
  /\ redis_up \in BOOLEAN
  /\ queue = <<>>
  /\ queue_up = TRUE
  /\ menu = MenuPrices
  /\ today = 1
  /\ uuid = [cart |-> 0, cart_item |-> 0, order |-> 0, order_item |-> 0]
  /\ reqs = [s \in Slots |-> IdleReq]
  /\ calls = 0

CacheAddInputs == {AddToCartReq(u, "m1", 1, {}) : u \in Users}
CacheUpdateInputs == {UpdateCartItemReq(u, 1, 2, FALSE, {}) : u \in Users}
CacheRemoveInputs == {RemoveCartItemReq(u, 1) : u \in Users}
CacheClearInputs == {ClearCartReq(u) : u \in Users}
CacheGetCartInputs == {GetCartReq(u) : u \in Users}
CacheCreateOrderInputs == {CreateOrderReq(u, TRUE, "A") : u \in Users}
CacheGetOrderInputs ==
  {GetOrderReq(1, scope) : scope \in {{}} \cup {{u} : u \in Users}}
CacheUpdateStatusInputs == {UpdateOrderStatusReq(1, "CONFIRMED", "s1", TRUE)}

CacheRequests ==
  CacheAddInputs \cup CacheUpdateInputs \cup CacheRemoveInputs
    \cup CacheClearInputs \cup CacheGetCartInputs \cup CacheCreateOrderInputs
    \cup CacheGetOrderInputs \cup CacheUpdateStatusInputs

CacheAdd ==
  \E r \in CacheAddInputs : calls < MaxCacheCalls /\ Call(1, r)

CacheUpdate ==
  \E r \in CacheUpdateInputs : calls < MaxCacheCalls /\ Call(1, r)

CacheRemove ==
  \E r \in CacheRemoveInputs : calls < MaxCacheCalls /\ Call(1, r)

CacheClear ==
  \E r \in CacheClearInputs : calls < MaxCacheCalls /\ Call(1, r)

CacheGetCart ==
  \E r \in CacheGetCartInputs : calls < MaxCacheCalls /\ Call(1, r)

CacheCreateOrder ==
  \E r \in CacheCreateOrderInputs :
    /\ calls < MaxCacheCalls
    /\ uuid.order < MaxOrders
    /\ Call(1, r)

CacheGetOrder ==
  \E r \in CacheGetOrderInputs : calls < MaxCacheCalls /\ Call(1, r)

CacheUpdateStatus ==
  \E r \in CacheUpdateStatusInputs : calls < MaxCacheCalls /\ Call(1, r)

(* an entry reaches its TTL (REDIS_CACHE_TTL) and is gone *)
CacheExpire ==
  /\ \A s \in Slots : reqs[s].pc = "idle"
  /\ redis_up
  /\ \E u \in DOMAIN redis.cart :
       redis' = [redis EXCEPT !.cart = [k \in (DOMAIN @) \ {u} |-> @[k]]]
  /\ UNCHANGED <<store_vars, redis_up, queue, queue_up, menu, today, uuid, reqs,
               calls>>

NextCache ==
  \/ CacheAdd
  \/ CacheUpdate
  \/ CacheRemove
  \/ CacheClear
  \/ CacheGetCart
  \/ CacheCreateOrder
  \/ CacheGetOrder
  \/ CacheUpdateStatus
  \/ CacheExpire
  \/ Respond

SpecCache == InitCache /\ [][NextCache]_vars

(* ------------------------------------------------------------------ *)
(* One customer's orders with a queue service that comes and goes      *)
(* ------------------------------------------------------------------ *)
QueueCreateInputs == {CreateOrderReq("u1", tok, "A") : tok \in BOOLEAN}

QueueStatusInputs ==
  {UpdateOrderStatusReq(o, st, "s1", TRUE) : o \in OrderIds, st \in LifeStatuses}

QueueAdd ==
  /\ calls < MaxQueueCalls
  /\ Call(1, AddToCartReq("u1", "m1", 1, {}))

QueueCreateOrder ==
  \E r \in QueueCreateInputs :
    /\ calls < MaxQueueCalls
    /\ uuid.order < MaxOrders
    /\ Call(1, r)

QueueUpdateStatus ==
  \E r \in QueueStatusInputs : calls < MaxQueueCalls /\ Call(1, r)

QueueCancel ==
  \E o \in OrderIds :
    /\ calls < MaxQueueCalls
    /\ Call(1, CancelOrderReq(o, "u1", "late"))

(* the queue service stops answering, or answers again *)
QueueOutage ==
  /\ \A s \in Slots : reqs[s].pc = "idle"
  /\ queue_up' = ~queue_up
  /\ UNCHANGED <<store_vars, redis, redis_up, queue, menu, today, uuid, reqs,
               calls>>

NextQueue ==
  \/ QueueAdd
  \/ QueueCreateOrder
  \/ QueueUpdateStatus
  \/ QueueCancel
  \/ QueueOutage
  \/ Respond

SpecQueue == Init /\ [][NextQueue]_vars

(* ------------------------------------------------------------------ *)
(* Listing the orders of a customer who has placed some                *)
(* ------------------------------------------------------------------ *)
(* the customer's earlier visits: an item is put in the cart and the *)
(* cart is ordered                                                   *)
PagePlaceOrder ==
  /\ \A s \in Slots : reqs[s].pc = "idle"
  /\ calls = 0
  /\ uuid.order < MaxTotal
  /\ LET added == Run(World, AddToCartReq("u1", "m2", 1, {}))
         placed == Run(added.w, CreateOrderReq("u1", TRUE, "A"))
     IN Install(placed.w)
  /\ UNCHANGED <<reqs, calls>>

Pages == 1..4
PageSizes == {1, 20, 100}
StatusFilters == {Null, "PENDING", "CONFIRMED"}

PageList ==
  \E page \in Pages, page_size \in PageSizes, status \in StatusFilters :
    /\ calls < MaxPageCalls
    /\ Call(1, GetMyOrdersReq("u1", status, page, page_size))

NextPage ==
  \/ PagePlaceOrder
  \/ PageList
  \/ Respond

SpecPage == Init /\ [][NextPage]_vars

(* ------------------------------------------------------------------ *)
(* One customer ordering on consecutive days                           *)
(* ------------------------------------------------------------------ *)
Serve(s, r0) ==
  /\ \A t \in Slots : reqs[t].pc = "idle"
  /\ LET out == Run(World, r0)
     IN /\ Install(out.w)
        /\ reqs' = [reqs EXCEPT ![s] = out.r]
  /\ calls' = calls + 1

DayPrefixes == {"A", "B"}

DayAdd ==
  /\ calls < MaxDayCalls
  /\ Serve(1, AddToCartReq("u1", "m2", 1, {}))

DayCreateOrder ==
  \E prefix \in DayPrefixes :
    /\ calls < MaxDayCalls
    /\ uuid.order < MaxDayOrders
    /\ Serve(1, CreateOrderReq("u1", TRUE, prefix))

(* midnight UTC passes *)
NextDay ==
  /\ \A s \in Slots : reqs[s].pc = "idle"
  /\ today < MaxDay
  /\ today' = today + 1
  /\ UNCHANGED <<store_vars, redis, redis_up, queue, queue_up, menu, uuid,
               reqs, calls>>

NextOfDays ==
  \/ DayAdd
  \/ DayCreateOrder
  \/ NextDay
  \/ Respond

SpecDay == Init /\ [][NextOfDays]_vars

(* ------------------------------------------------------------------ *)
(* One customer's cart requests served concurrently                    *)
(* ------------------------------------------------------------------ *)
RaceAddInputs ==
  {AddToCartReq("u1", "m1", 20, {}), AddToCartReq("u1", "m1", 30, {}),
   AddToCartReq("u1", "m2", 1, {})}

RaceUpdateInputs == {UpdateCartItemReq("u1", 1, 50, FALSE, {})}

BeginRaceAdd ==
  \E s \in Slots, r \in RaceAddInputs : calls < MaxRaceCalls /\ Begin(s, r)

BeginRaceUpdate ==
  \E s \in Slots, r \in RaceUpdateInputs : calls < MaxRaceCalls /\ Begin(s, r)

BeginRaceRemove ==
  \E s \in Slots : calls < MaxRaceCalls /\ Begin(s, RemoveCartItemReq("u1", 1))

BeginRaceClear ==
  \E s \in Slots : calls < MaxRaceCalls /\ Begin(s, ClearCartReq("u1"))

StepRace == \E s \in Slots : reqs[s].user_id = "u1" /\ Step(s)

NextCartRace ==
  \/ BeginRaceAdd
  \/ BeginRaceUpdate
  \/ BeginRaceRemove
  \/ BeginRaceClear
  \/ StepRace
  \/ Respond

SpecCartRace == Init /\ [][NextCartRace]_vars

(* ------------------------------------------------------------------ *)
(* One order whose status is changed by concurrent requests            *)
(* ------------------------------------------------------------------ *)
RaceStatuses == {"CONFIRMED", "COMPLETED"}

OrderRaceAdd ==
  /\ uuid.cart_item = 0
  /\ Call(1, AddToCartReq("u1", "m1", 1, {}))

OrderRaceCreate ==
  /\ uuid.order = 0
  /\ Call(1, CreateOrderReq("u1", TRUE, "A"))

BeginRaceStatus ==
  \E s \in Slots, st \in RaceStatuses :
    /\ uuid.order = 1
    /\ Begin(s, UpdateOrderStatusReq(1, st, "s1", TRUE))

BeginRaceCancel ==
  \E s \in Slots :
    /\ uuid.order = 1
    /\ Begin(s, CancelOrderReq(1, "u1", "late"))

StepOrderRace ==
  \E s \in Slots :
    reqs[s].op \in {"update_order_status", "cancel_order"} /\ Step(s)

NextOrderRace ==
  \/ OrderRaceAdd
  \/ OrderRaceCreate
  \/ BeginRaceStatus
  \/ BeginRaceCancel
  \/ StepOrderRace
  \/ Respond

SpecOrderRace == Init /\ [][NextOrderRace]_vars

(* ------------------------------------------------------------------ *)
(* Vocabulary of the properties                                        *)
(* ------------------------------------------------------------------ *)
(* the step is a whole call of op, served alone in slot 1 *)
Served(op) ==
  /\ calls' = calls + 1
  /\ reqs'[1].op = op
  /\ reqs'[1].pc = "done"

Finished(op) == reqs[1].op = op /\ reqs[1].pc = "done"

CartsOf(carts, u) == {c \in carts : c.user_id = u}

LinesOf(carts, lines, u) ==
  {i \in lines : \E c \in CartsOf(carts, u) : i.cart_id = c.id}

CartZeroed(carts, lines, u) ==
  /\ CartsOf(carts, u) # {}
  /\ \A c \in CartsOf(carts, u) :
       c.subtotal = 0 /\ c.tax = 0 /\ c.total = 0 /\ c.item_count = 0
  /\ LinesOf(carts, lines, u) = {}

OrdersWithId(coll, id) == {o \in coll : o.id = id}

OfOrder(coll, id) == {d \in coll : d.order_id = id}

(* C2: after every create_order that returns successfully, served alone, *)
(* the user's cart has no lines and subtotal, tax, total and item_count  *)
(* are 0; the new order exists with status PENDING; exactly one token    *)
(* and exactly one payment reference it; its timeline has one entry.     *)
C2_CreateOrderPostcondition ==
  [][(Served("create_order") /\ reqs'[1].result = "ok") =>
       LET u == reqs'[1].user_id
           id == reqs'[1].order_id
       IN /\ CartZeroed(shopping_carts', cart_items', u)
          /\ OrdersWithId(orders, id) = {}
          /\ Cardinality(OrdersWithId(orders', id)) = 1
          /\ \A o \in OrdersWithId(orders', id) :
               o.status = "PENDING" /\ o.user_id = u
          /\ Cardinality(OfOrder(order_tokens', id)) = 1
          /\ Cardinality(OfOrder(payments', id)) = 1
          /\ Len(TimelineOf(order_timeline', id)) = 1]_vars

C2_Witness ==
  /\ Finished("create_order")
  /\ reqs[1].result = "ok"
  /\ CartZeroed(shopping_carts, cart_items, reqs[1].user_id)
  /\ Cardinality(OfOrder(order_tokens, reqs[1].order_id)) = 1

(* C3: create_order for a user who has no cart, whose cart has           *)
(* item_count 0, or whose cart has no lines fails with the empty-cart    *)
(* error and writes nothing: no collection of the store changes.         *)
NothingToOrder(carts, lines, u) ==
  \/ CartsOf(carts, u) = {}
  \/ \E c \in CartsOf(carts, u) : c.item_count = 0
  \/ LinesOf(carts, lines, u) = {}

C3_EmptyCartRejected ==
  [][(/\ Served("create_order")
      /\ NothingToOrder(shopping_carts, cart_items, reqs'[1].user_id)) =>
       /\ reqs'[1].result = "Cart is empty"
       /\ UNCHANGED store_vars]_vars

C3_Witness ==
  /\ Finished("create_order")
  /\ reqs[1].result = "Cart is empty"
  /\ NothingToOrder(shopping_carts, cart_items, reqs[1].user_id)
  /\ orders # {}

(* C1: for N >= 2 create_order calls running concurrently on one day, *)
(* the tokens that end up stored have pairwise distinct token_number. *)
C1_ConcurrentTokenNumbersDistinct ==
  \A t1 \in order_tokens, t2 \in order_tokens :
    (t1.order_id # t2.order_id /\ t1.generated_at = t2.generated_at) =>
      t1.token_number # t2.token_number

Terminal == {"COMPLETED", "CANCELLED", "REFUNDED"}

(* C4: once an order is COMPLETED, CANCELLED or REFUNDED no operation  *)
(* changes its status; on a COMPLETED order only the feedback fields   *)
(* (rating, feedback) may still change, on the others nothing.         *)
C4_TerminalStatusImmutable ==
  [][\A o \in orders : o.status \in Terminal =>
       \A n \in OrdersWithId(orders', o.id) :
         /\ n.status = o.status
         /\ \/ n = o
            \/ /\ o.status = "COMPLETED"
               /\ n = [o EXCEPT !.rating = n.rating,
                                !.feedback = n.feedback]]_vars

ChainNext(from, to) ==
  <<from, to>> \in {<<"PENDING", "CONFIRMED">>, <<"CONFIRMED", "PREPARING">>,
                    <<"PREPARING", "READY">>, <<"READY", "COMPLETED">>}

(* C5: every change of an order's status is the next step of the chain *)
(* PENDING -> CONFIRMED -> PREPARING -> READY -> COMPLETED or a side   *)
(* exit to CANCELLED or REFUNDED: never backward, never skipping a     *)
(* step, never to CART.                                                *)
C5_StatusFollowsChain ==
  [][\A o \in orders : \A n \in OrdersWithId(orders', o.id) :
       n.status # o.status =>
         \/ ChainNext(o.status, n.status)
         \/ n.status \in {"CANCELLED", "REFUNDED"}]_vars

(* C6: update_order_status called by a non-staff actor with a requested *)
(* status other than CANCELLED is rejected; the rejected call leaves    *)
(* the store (order, payment, timeline) and the cache unchanged and     *)
(* sends no notification.                                               *)
NonStaffStatusCall ==
  /\ \/ Served("update_order_status") /\ ~reqs'[1].is_staff
     \/ Served("route_update_order_status")
  /\ reqs'[1].user_id \notin StaffUsers
  /\ reqs'[1].status # "CANCELLED"

C6_NonStaffRejected ==
  [][NonStaffStatusCall =>
       /\ reqs'[1].result # "ok"
       /\ UNCHANGED <<store_vars, redis, queue>>]_vars

C6_Witness ==
  /\ Finished("update_order_status")
  /\ reqs[1].result = "Only staff can change order status"
  /\ reqs[1].status = "CONFIRMED"
  /\ \E o \in OrdersWithId(orders, reqs[1].order_id) : o.status = "PENDING"

(* C7: no operation moves a COMPLETED, CANCELLED or REFUNDED order to   *)
(* CANCELLED: a request that would cancel it (cancel_order, or          *)
(* update_order_status with status CANCELLED) fails and leaves the      *)
(* order, its payment and its timeline unchanged.                       *)
CancelRequestFor(id) ==
  /\ \/ Served("cancel_order")
     \/ /\ Served("update_order_status") \/ Served("route_update_order_status")
        /\ reqs'[1].status = "CANCELLED"
  /\ reqs'[1].order_id = id

C7_TerminalNeverCancelled ==
  [][\A o \in orders : (o.status \in Terminal /\ CancelRequestFor(o.id)) =>
       /\ reqs'[1].result # "ok"
       /\ o \in orders'
       /\ OfOrder(payments', o.id) = OfOrder(payments, o.id)
       /\ TimelineOf(order_timeline', o.id) =
            TimelineOf(order_timeline, o.id)]_vars

(* C8: whenever no operation is in progress, every CANCELLED order has  *)
(* its payment in status CANCELLED and a cancellation_reason recorded,  *)
(* whichever operation cancelled it.                                    *)
C8_CancelledOrderPaymentCancelled ==
  (\A s \in Slots : ~Running(reqs[s])) =>
    \A o \in orders : o.status = "CANCELLED" =>
      /\ o.cancellation_reason # Null
      /\ \A p \in OfOrder(payments, o.id) : p.status = "CANCELLED"

(* C9: submit_feedback on an order whose status is not COMPLETED fails  *)
(* and leaves the order's rating and feedback and the per-line feedback *)
(* records unchanged; on a COMPLETED order owned by the caller it       *)
(* succeeds and leaves the status COMPLETED.                            *)
C9_FeedbackOnlyWhenCompleted ==
  [][Served("submit_feedback") =>
       \A o \in OrdersWithId(orders, reqs'[1].order_id) :
         /\ o.status # "COMPLETED" =>
              /\ reqs'[1].result # "ok"
              /\ o \in orders'
              /\ order_item_feedback' = order_item_feedback
         /\ (o.status = "COMPLETED" /\ o.user_id = reqs'[1].user_id) =>
              /\ reqs'[1].result = "ok"
              /\ \A n \in OrdersWithId(orders', o.id) :
                   n.status = "COMPLETED"]_vars

C9_Witness ==
  /\ Finished("submit_feedback")
  /\ reqs[1].result = "Can only rate completed orders"
  /\ \E o \in OrdersWithId(orders, reqs[1].order_id) :
       o.status = "READY" /\ o.user_id = reqs[1].user_id

(* C10: submit_feedback on a COMPLETED order is idempotently            *)
(* overwritable: after a successful submission the stored feedback of   *)
(* the order (rating, text, per-line records) is that of the submission *)
(* alone, so the same submission twice equals once and a different one  *)
(* replaces the earlier.                                                *)
RequestRecords(r) ==
  [i \in 1..Len(r.item_feedback) |->
     [order_id |-> r.order_id,
      order_item_id |-> r.item_feedback[i].order_item_id,
      rating |-> r.item_feedback[i].rating]]

C10_FeedbackOverwrites ==
  [][(Served("submit_feedback") /\ reqs'[1].result = "ok") =>
       /\ \A n \in OrdersWithId(orders', reqs'[1].order_id) :
            n.rating = reqs'[1].rating /\ n.feedback = reqs'[1].feedback
       /\ TimelineOf(order_item_feedback', reqs'[1].order_id) =
            RequestRecords(reqs'[1])]_vars

(* ------------------------------------------------------------------ *)
(* Cart properties                                                     *)
(* ------------------------------------------------------------------ *)
CartMutations == {"add_to_cart", "update_cart_item", "remove_cart_item"}

ServedAny(ops) == \E op \in ops : Served(op)

(* t is num/den rounded to the nearest whole cent *)
NearestCent(t, num, den) ==
  /\ 2 * (t * den - num) <= den
  /\ 2 * (num - t * den) <= den

TotalsMatchLines(c, lines) ==
  LET mine == {i \in lines : i.cart_id = c.id}
  IN /\ c.subtotal = SumOver(mine, "total_price")
     /\ NearestCent(c.tax, c.subtotal * c.tax_percentage, 100)
     /\ c.total = c.subtotal + c.tax
     /\ c.item_count = SumOver(mine, "quantity")

(* recalculate_cart run once more on the world w for the cart c *)
RecalculatedAgain(w, c) ==
  Run(w, [IdleReq EXCEPT !.op = "recalculate_cart", !.pc = "rc_read",
                         !.ret = "done", !.cart = {c}]).w

(* C11: after each add_to_cart, update_cart_item or remove_cart_item   *)
(* served alone, the caller's stored cart has subtotal = sum of line   *)
(* total_price, tax = subtotal * tax_percentage / 100 to the nearest   *)
(* cent, total = subtotal + tax and item_count = sum of line quantity, *)
(* and running recalculate_cart again changes none of the carts.       *)
C11_TotalsFollowLines ==
  [][ServedAny(CartMutations) =>
       \A c \in CartsOf(shopping_carts', reqs'[1].user_id) :
         /\ TotalsMatchLines(c, cart_items')
         /\ RecalculatedAgain(World', c).shopping_carts = shopping_carts']_vars

C11_Witness ==
  /\ Finished("update_cart_item")
  /\ reqs[1].result = "ok"
  /\ \E c \in CartsOf(shopping_carts, reqs[1].user_id) :
       /\ c.item_count = 3
       /\ 100 * c.tax # c.subtotal * c.tax_percentage
       /\ TotalsMatchLines(c, cart_items)

(* the lines of u's cart that hold the menu item m *)
LinesFor(carts, lines, u, m) ==
  {i \in LinesOf(carts, lines, u) : i.menu_item_id = m}

cart_vars == <<shopping_carts, cart_items, cart_item_customizations>>

(* C12: add_to_cart for an item the catalog resolves and that already  *)
(* has a line in the user's cart keeps a single line for the item with *)
(* quantity old + added; when that sum exceeds 50 the call fails and   *)
(* the carts, lines and customizations are left as they were.          *)
C12_SameItemMerges ==
  [][(/\ Served("add_to_cart")
      /\ reqs'[1].menu_item_id \in DOMAIN menu
      /\ LinesFor(shopping_carts, cart_items, reqs'[1].user_id,
                  reqs'[1].menu_item_id) # {}) =>
       LET r == reqs'[1]
           old == LinesFor(shopping_carts, cart_items, r.user_id,
                           r.menu_item_id)
           new == LinesFor(shopping_carts', cart_items', r.user_id,
                           r.menu_item_id)
       IN \A o \in old :
            IF o.quantity + r.quantity > 50
            THEN r.result # "ok" /\ UNCHANGED cart_vars
            ELSE /\ r.result = "ok"
                 /\ Cardinality(new) = 1
                 /\ \A n \in new :
                      n.id = o.id /\ n.quantity = o.quantity + r.quantity]_vars

C12_Witness ==
  /\ Finished("add_to_cart")
  /\ reqs[1].result = "Maximum quantity per item is 50"
  /\ \E i \in LinesFor(shopping_carts, cart_items, reqs[1].user_id,
                       reqs[1].menu_item_id) : i.quantity = 31

(* ------------------------------------------------------------------ *)
(* Order properties                                                    *)
(* ------------------------------------------------------------------ *)
CreateOrderInProgress ==
  \E s \in Slots : reqs[s].op = "create_order" /\ Running(reqs[s])

(* C13: whenever no create_order call is in progress, each persisted   *)
(* order has exactly one token record and exactly one payment record,  *)
(* also after a create_order that aborted on a failed write.           *)
C13_OneTokenOnePayment ==
  ~CreateOrderInProgress =>
    \A o \in orders :
      /\ Cardinality(OfOrder(order_tokens, o.id)) = 1
      /\ Cardinality(OfOrder(payments, o.id)) = 1

(* the customizations stored for the order lines in lines *)
CustomsOfLines(customs, lines) ==
  {c \in customs : \E l \in lines : c.order_item_id = l.id}

(* C14: once an order exists no operation changes its subtotal, tax or *)
(* total, nor any of its order lines or their customizations, and none *)
(* deletes an order line: cart mutations, a catalog price change,      *)
(* update_order_status, cancel_order and submit_feedback leave them.   *)
C14_OrderSnapshotFrozen ==
  [][\A o \in orders :
       /\ \E n \in orders' : n.id = o.id
       /\ \A n \in OrdersWithId(orders', o.id) :
            n.subtotal = o.subtotal /\ n.tax = o.tax /\ n.total = o.total
       /\ OfOrder(order_items', o.id) = OfOrder(order_items, o.id)
       /\ CustomsOfLines(order_item_customizations',
                         OfOrder(order_items', o.id))
            = CustomsOfLines(order_item_customizations,
                             OfOrder(order_items, o.id))]_vars

C14_Witness ==
  /\ Finished("add_to_cart")
  /\ reqs[1].result = "ok"
  /\ \E o \in orders, l \in order_items, c \in cart_items :
       /\ o.status = "CANCELLED"
       /\ l.order_id = o.id
       /\ c.menu_item_id = l.menu_item_id
       /\ c.unit_price > l.unit_price
       /\ o.subtotal = l.total_price

(* the order line ol is a copy of the cart line cl, customizations too *)
LineCopied(cl, ol, cart_customs, order_customs) ==
  /\ ol.menu_item_id = cl.menu_item_id
  /\ ol.quantity = cl.quantity
  /\ ol.unit_price = cl.unit_price
  /\ ol.total_price = cl.total_price
  /\ {x.customization_id : x \in {y \in order_customs :
                                    y.order_item_id = ol.id}}
       = {x.customization_id : x \in {y \in cart_customs :
                                        y.cart_item_id = cl.id}}

(* C15: a successful create_order served alone produces an exact copy  *)
(* of the cart at call time: one order line per cart line with the     *)
(* same item, quantity, unit_price, total_price and customizations;    *)
(* order subtotal, tax and total equal to the cart's; a PENDING        *)
(* payment of the cart total; order subtotal = sum of its lines.       *)
C15_OrderCopiesCart ==
  [][(Served("create_order") /\ reqs'[1].result = "ok") =>
       LET u == reqs'[1].user_id
           id == reqs'[1].order_id
           lines == LinesOf(shopping_carts, cart_items, u)
           olines == OfOrder(order_items', id)
       IN /\ Cardinality(olines) = Cardinality(lines)
          /\ \A cl \in lines :
               Cardinality({ol \in olines :
                  LineCopied(cl, ol, cart_item_customizations,
                             order_item_customizations')}) = 1
          /\ \A c \in CartsOf(shopping_carts, u) :
               /\ \A o \in OrdersWithId(orders', id) :
                    /\ o.subtotal = c.subtotal
                    /\ o.tax = c.tax
                    /\ o.total = c.total
                    /\ o.subtotal = SumOver(olines, "total_price")
               /\ OfOrder(payments', id) # {}
               /\ \A q \in OfOrder(payments', id) :
                    q.status = "PENDING" /\ q.amount = c.total]_vars

C15_Witness ==
  /\ Finished("create_order")
  /\ reqs[1].result = "ok"
  /\ \E l \in OfOrder(order_items, reqs[1].order_id) :
       /\ l.total_price # l.unit_price * l.quantity
       /\ \E x \in order_item_customizations : x.order_item_id = l.id

StatusChangeOps == {"update_order_status", "cancel_order"}

StatusChanged == ServedAny(StatusChangeOps) /\ reqs'[1].result = "ok"

(* C16: every successful update_order_status or cancel_order appends   *)
(* exactly one timeline entry, carrying the order's new status and the *)
(* caller; no step removes or modifies an entry; no other operation    *)
(* adds an entry to an existing order, and a new order starts with     *)
(* one: creation followed by k status changes gives k + 1 entries.     *)
C16_TimelineAppendOnly ==
  [][/\ Len(order_timeline') >= Len(order_timeline)
     /\ SubSeq(order_timeline', 1, Len(order_timeline)) = order_timeline
     /\ StatusChanged =>
          /\ Len(order_timeline') = Len(order_timeline) + 1
          /\ LET e == order_timeline'[Len(order_timeline')]
             IN /\ e.order_id = reqs'[1].order_id
                /\ e.updated_by = reqs'[1].user_id
                /\ \A n \in OrdersWithId(orders', reqs'[1].order_id) :
                     e.status = n.status
     /\ ~StatusChanged =>
          \A o \in orders :
            TimelineOf(order_timeline', o.id) = TimelineOf(order_timeline, o.id)
     /\ \A n \in orders' :
          OrdersWithId(orders, n.id) = {} =>
            Len(TimelineOf(order_timeline', n.id)) = 1]_vars

C16_Witness ==
  /\ Finished("cancel_order")
  /\ reqs[1].result = "ok"
  /\ Len(TimelineOf(order_timeline, reqs[1].order_id)) = 3
  /\ order_timeline[Len(order_timeline)].status = "CANCELLED"
  /\ order_timeline[Len(order_timeline)].updated_by = "u1"

CartIds(carts) == {c.id : c \in carts}

(* C17: there is at most one cart per user in every state; a step that *)
(* creates a cart creates exactly one, for a user who had none, with   *)
(* no lines and all totals 0; and a get_cart that returns leaves the   *)
(* user with a cart. This holds when first accesses of the same user   *)
(* interleave between the lookup and the insert of get_or_create_cart. *)
C17_OneCartPerUser ==
  [][/\ \A u \in Users : Cardinality(CartsOf(shopping_carts', u)) <= 1
     /\ Cardinality(CartIds(shopping_carts') \ CartIds(shopping_carts)) <= 1
     /\ \A c \in shopping_carts' :
          c.id \notin CartIds(shopping_carts) =>
            /\ CartsOf(shopping_carts, c.user_id) = {}
            /\ c.subtotal = 0 /\ c.tax = 0 /\ c.total = 0 /\ c.item_count = 0
            /\ {i \in cart_items' : i.cart_id = c.id} = {}
     /\ \A s \in Slots :
          (/\ reqs'[s].op = "get_cart"
           /\ reqs'[s].pc = "done"
           /\ reqs'[s].result = "ok") =>
            CartsOf(shopping_carts', reqs'[s].user_id) # {}]_vars

(* two first accesses of one user raced: the later insert was refused *)
C17_Witness ==
  \E s \in Slots :
    /\ reqs[s].pc = "done"
    /\ reqs[s].result = "500"
    /\ Cardinality(CartsOf(shopping_carts, reqs[s].user_id)) = 1

(* C18: a cart is never deleted: every cart keeps its id and its user  *)
(* in every later state; clear_cart and a successful create_order      *)
(* remove all lines of the caller's cart and set subtotal, tax, total  *)
(* and item_count to 0 while the cart record stays.                    *)
C18_CartOnlyZeroed ==
  [][/\ \A c \in shopping_carts :
          \E n \in shopping_carts' : n.id = c.id /\ n.user_id = c.user_id
     /\ (\/ Served("clear_cart")
         \/ Served("create_order") /\ reqs'[1].result = "ok") =>
          CartZeroed(shopping_carts', cart_items', reqs'[1].user_id)]_vars

C18_Witness ==
  /\ Finished("clear_cart")
  /\ reqs[1].result = "ok"
  /\ Cardinality(shopping_carts) = 1
  /\ uuid.cart_item >= 2
  /\ orders = {}
  /\ CartZeroed(shopping_carts, cart_items, reqs[1].user_id)

CartOps ==
  {"get_cart", "add_to_cart", "update_cart_item", "remove_cart_item",
   "clear_cart", "create_order"}

(* the call names a line that is not in the caller's cart *)
ForeignLineCall ==
  /\ ServedAny({"update_cart_item", "remove_cart_item"})
  /\ \A i \in LinesOf(shopping_carts, cart_items, reqs'[1].user_id) :
       i.id # reqs'[1].cart_item_id

(* C19: update_cart_item and remove_cart_item with a line id that is   *)
(* absent or belongs to another user's cart fail with the not-found    *)
(* error and change no line, no customization and no totals of an      *)
(* existing cart; and no cart operation of a user changes a line or    *)
(* the cart of another user.                                           *)
C19_ForeignLineNotFound ==
  [][/\ ForeignLineCall =>
          /\ reqs'[1].result = "Cart item not found"
          /\ cart_items' = cart_items
          /\ cart_item_customizations' = cart_item_customizations
          /\ shopping_carts \subseteq shopping_carts'
     /\ ServedAny(CartOps) =>
          \A v \in Users \ {reqs'[1].user_id} :
            /\ CartsOf(shopping_carts', v) = CartsOf(shopping_carts, v)
            /\ LinesOf(shopping_carts', cart_items', v)
                 = LinesOf(shopping_carts, cart_items, v)]_vars

C19_Witness ==
  /\ Finished("remove_cart_item")
  /\ reqs[1].result = "Cart item not found"
  /\ \E i \in cart_items, c \in shopping_carts :
       /\ i.id = reqs[1].cart_item_id
       /\ i.cart_id = c.id
       /\ c.user_id # reqs[1].user_id
       /\ c.item_count = i.quantity

(* C20: add_to_cart for an item the catalog does not resolve (unknown  *)
(* item, or the catalog call failing) fails with the not-found error   *)
(* and adds or changes no cart line, no customization and no totals    *)
(* of an existing cart.                                                *)
C20_UnresolvedItemRejected ==
  [][(Served("add_to_cart") /\ reqs'[1].menu_item_id \notin DOMAIN menu) =>
       /\ reqs'[1].result = "Menu item not found"
       /\ cart_items' = cart_items
       /\ cart_item_customizations' = cart_item_customizations
       /\ shopping_carts \subseteq shopping_carts'
       /\ \A c \in shopping_carts' \ shopping_carts :
            c.subtotal = 0 /\ c.tax = 0 /\ c.total = 0 /\ c.item_count = 0]_vars

C20_Witness ==
  /\ Finished("add_to_cart")
  /\ reqs[1].result = "Menu item not found"
  /\ menu = EmptyMap
  /\ LinesFor(shopping_carts, cart_items, reqs[1].user_id,
              reqs[1].menu_item_id) # {}

(* ------------------------------------------------------------------ *)
(* Reads, cache and notifications                                      *)
(* ------------------------------------------------------------------ *)
(* C21: get_order with an owner scope u returns an order only if the   *)
(* order belongs to u and otherwise fails with not-found, whatever the *)
(* cache holds, also after the order was read without owner scope.     *)
C21_ScopedReadOwnerOnly ==
  [][(Served("get_order") /\ reqs'[1].scope # {}) =>
       LET r == reqs'[1]
           own == {o \in orders : o.id = r.order_id /\ o.user_id \in r.scope}
       IN IF own = {}
          THEN r.result = "Order not found"
          ELSE /\ r.result = "ok"
               /\ \A v \in r.resp : v.id = r.order_id /\ v.user_id \in r.scope]_vars

(* a non-owner asks for an order that staff have updated, and so read *)
(* without owner scope, before                                        *)
C21_Witness ==
  /\ Finished("get_order")
  /\ reqs[1].result = "Order not found"
  /\ reqs[1].scope # {}
  /\ \E o \in OrdersWithId(orders, reqs[1].order_id) :
       o.user_id \notin reqs[1].scope /\ o.status = "CONFIRMED"

AllIdle == \A s \in Slots : reqs[s].pc = "idle"

Durable(w) ==
  <<w.shopping_carts, w.cart_items, w.cart_item_customizations, w.orders,
    w.order_items, w.order_item_customizations, w.order_tokens, w.payments,
    w.order_timeline, w.order_item_feedback>>

(* two runs of a request end with the same result, the same response *)
(* and the same durable state                                        *)
SameOutcome(a, b) ==
  /\ a.r.result = b.r.result
  /\ a.r.resp = b.r.resp
  /\ Durable(a.w) = Durable(b.w)

CacheEmptied(w) == [w EXCEPT !.redis = [cart |-> EmptyMap, order |-> EmptyMap]]

CacheDown(w) == [w EXCEPT !.redis_up = FALSE]

(* C22: in every state reached by cart and order operations served one *)
(* after another, each operation returns the same result and response  *)
(* and leaves the same durable state whether it runs with the cache as *)
(* it is, with an empty cache, or with a cache failing on every call:  *)
(* no read returns a view cached before a completed mutation.          *)
C22_CacheIsTransparent ==
  AllIdle =>
    \A r0 \in CacheRequests :
      /\ SameOutcome(Run(World, r0), Run(CacheEmptied(World), r0))
      /\ SameOutcome(Run(World, r0), Run(CacheDown(World), r0))

(* a cart was cached and its stored cart has changed since and holds a *)
(* line, and the cache holds the view of the cart as it is now         *)
C22_Witness ==
  /\ AllIdle
  /\ redis_up
  /\ \E u \in DOMAIN redis.cart :
       /\ redis.cart[u].item_count = 2
       /\ \A c \in CartsOf(shopping_carts, u) : c.item_count = 2

QueueAnswers(w, up) == [w EXCEPT !.queue_up = up]

(* C23: a failing queue notification never fails the operation that    *)
(* triggered it: in every state between calls, each create_order and   *)
(* each update_order_status returns the same result and response and   *)
(* leaves the same durable state whether the queue service answers the *)
(* notification or not.                                                *)
C23_NotificationNeverFailsCaller ==
  AllIdle =>
    \A r0 \in QueueCreateInputs \cup QueueStatusInputs :
      SameOutcome(Run(QueueAnswers(World, TRUE), r0),
                  Run(QueueAnswers(World, FALSE), r0))

(* a notification failed for an order that was created, and one failed *)
(* for a status change that is stored                                  *)
C23_Witness ==
  /\ Len(queue) = 2
  /\ \A i \in 1..2 : ~queue[i].delivered /\ queue[i].order_id = 1
  /\ \E o \in OrdersWithId(orders, 1) : o.status = "COMPLETED"
  /\ Finished("update_order_status") /\ reqs[1].result = "ok"

(* C24: every successful create_order, update_order_status and         *)
(* cancel_order is followed by exactly one notification attempt to the *)
(* queue service for its order, made once whether it succeeds or fails *)
C24_NotifiedOncePerChange ==
  [][(ServedAny({"create_order", "update_order_status", "cancel_order"})
        /\ reqs'[1].result = "ok") =>
       queue' = Append(queue, [order_id |-> reqs'[1].order_id,
                               delivered |-> queue_up])]_vars

(* k is the least whole number of pages of page_size that hold total *)
IsCeilOf(k, total, page_size) ==
  /\ k >= 0
  /\ k * page_size >= total
  /\ (k - 1) * page_size < total

(* C25: a listing of total matching orders, for page >= 1 and a page   *)
(* size in 1..100, answers total_pages = ceil(total / page_size),      *)
(* has_next exactly when page < total_pages and has_prev exactly when  *)
(* page > 1; for 45 orders in pages of 20 that is 3 pages, has_next on *)
(* pages 1 and 2 and not on page 3.                                    *)
C25_PaginationContract ==
  [][Served("get_my_orders") =>
       LET r == reqs'[1]
           total == Cardinality(MyOrdersQuery(World, r))
       IN /\ r.result = "ok"
          /\ \A v \in r.resp :
               /\ v.total = total
               /\ IsCeilOf(v.total_pages, total, r.page_size)
               /\ v.has_next <=> r.page < v.total_pages
               /\ v.has_prev <=> r.page > 1
               /\ (total = 45 /\ r.page_size = 20) =>
                    /\ v.total_pages = 3
                    /\ v.has_next <=> r.page \in {1, 2}]_vars

(* page 3 of 45 orders in pages of 20 was listed: 5 orders, no next *)
C25_Witness ==
  /\ Finished("get_my_orders")
  /\ reqs[1].page = 3 /\ reqs[1].page_size = 20
  /\ \E v \in reqs[1].resp :
       /\ v.total = 45 /\ v.total_pages = 3
       /\ Len(v.items) = 5
       /\ ~v.has_next /\ v.has_prev

(* C26: cancel_order and submit_feedback called by a user who does not *)
(* own the order fail with not-found and leave the orders, payments,   *)
(* timeline and feedback records as they were.                         *)
C26_OwnerGated ==
  [][(/\ ServedAny({"cancel_order", "submit_feedback"})
      /\ \A o \in OrdersWithId(orders, reqs'[1].order_id) :
           o.user_id # reqs'[1].user_id) =>
       /\ reqs'[1].result = "Order not found"
       /\ UNCHANGED <<orders, payments, order_timeline, order_item_feedback>>
    ]_vars

(* a user asked to cancel another user's order, which could have been *)
(* cancelled by its owner                                             *)
C26_Witness ==
  /\ Finished("cancel_order")
  /\ reqs[1].result = "Order not found"
  /\ \E o \in OrdersWithId(orders, reqs[1].order_id) :
       o.user_id # reqs[1].user_id /\ ~NotCancellable(o.status)

TokensOfDay(tokens, day) == {t \in tokens : t.generated_at = day}

(* the token numbers issued on each day are 1, 2, .. without repeats *)
DayNumbersConsecutive(tokens) ==
  \A day \in 1..MaxDay + 1 :
    LET issued == TokensOfDay(tokens, day)
    IN /\ {t.token_number : t \in issued} = 1..Cardinality(issued)
       /\ \A t1, t2 \in issued : t1.token_number = t2.token_number => t1 = t2

(* C27: with create_order calls run one after another, the k-th order  *)
(* successfully created on a day receives token_number k, the count of *)
(* tokens already issued that day plus 1; the numbers of one day are   *)
(* consecutive from 1 and distinct, and restart at 1 on the next day.  *)
C27_TokenNumbersPerDay ==
  [][(Served("create_order") /\ reqs'[1].result = "ok") =>
       /\ \E t \in order_tokens' :
            /\ order_tokens' = order_tokens \cup {t}
            /\ t \notin order_tokens
            /\ t.order_id = reqs'[1].order_id
            /\ t.generated_at = today
            /\ t.token_number =
                 Cardinality(TokensOfDay(order_tokens, today)) + 1
       /\ DayNumbersConsecutive(order_tokens')]_vars

(* the first order of the second day got number 1 after two orders of *)
(* the first day got 1 and 2                                          *)
C27_Witness ==
  /\ Finished("create_order") /\ reqs[1].result = "ok"
  /\ today = 2
  /\ {t.token_number : t \in TokensOfDay(order_tokens, 1)} = {1, 2}
  /\ \E t \in TokensOfDay(order_tokens, 2) :
       t.token_number = 1 /\ t.order_id = reqs[1].order_id

NoCartOperationInProgress == \A s \in Slots : ~Running(reqs[s])

(* C28: whenever no cart operation of the user is in progress, after   *)
(* any interleaving of the user's concurrent add_to_cart,              *)
(* update_cart_item, remove_cart_item and clear_cart calls, the stored *)
(* subtotal of the cart is the sum of its lines' total_price and its   *)
(* item_count is the sum of their quantity.                            *)
C28_TotalsMatchLinesConcurrently ==
  NoCartOperationInProgress =>
    \A c \in shopping_carts :
      LET mine == {i \in cart_items : i.cart_id = c.id}
      IN /\ c.subtotal = SumOver(mine, "total_price")
         /\ c.item_count = SumOver(mine, "quantity")

(* C29: a cart never holds two lines for the same item id, also when   *)
(* two add_to_cart calls of one user for one item interleave between   *)
(* the lookup of an existing line and the insert.                      *)
C29_OneLinePerItem ==
  \A i, j \in cart_items :
    (i.cart_id = j.cart_id /\ i.menu_item_id = j.menu_item_id) => i = j

(* C30: every cart line has a quantity between 1 and 50 in every       *)
(* reachable state, for all sequences and interleavings of add_to_cart *)
(* and update_cart_item calls that request a quantity within 1..50.    *)
C30_LineQuantityInRange ==
  \A i \in cart_items : 1 <= i.quantity /\ i.quantity <= MAX_QUANTITY_PER_ITEM

(* two concurrent additions of 30 to a line of 20 both succeeded and *)
(* the line holds 50                                                 *)
C30_Witness ==
  /\ \A s \in Slots :
       /\ reqs[s].op = "add_to_cart" /\ reqs[s].pc = "done"
       /\ reqs[s].result = "ok" /\ reqs[s].quantity = 30
  /\ \E i \in cart_items : i.menu_item_id = "m1" /\ i.quantity = 50

(* ------------------------------------------------------------------ *)
(* Order of steps, leftovers and interleavings                         *)
(* ------------------------------------------------------------------ *)
OrderRecordsOf(id) ==
  [orders |-> {o \in orders : o.id = id},
   lines |-> {i \in order_items : i.order_id = id},
   tokens |-> {t \in order_tokens : t.order_id = id},
   payments |-> {p \in payments : p.order_id = id}]

(* the token number is not yet drawn: nothing of the order is stored *)
TokenBeforeRecords(r) ==
  r.pc \in {"co_insert_order", "co_insert_items", "co_count_tokens"} =>
    /\ OrderRecordsOf(r.order_id).orders = {}
    /\ OrderRecordsOf(r.order_id).lines = {}

(* timeline after the records, cart zeroing after the timeline entry, *)
(* cache invalidation after the zeroing, notification after them all  *)
LaterStepsInOrder(r) ==
  LET rec == OrderRecordsOf(r.order_id)
      stored == /\ rec.orders # {} /\ rec.lines # {}
                /\ rec.tokens # {} /\ rec.payments # {}
      logged == TimelineOf(order_timeline, r.order_id) # <<>>
      zeroed == \A c \in CartsOf(shopping_carts, r.user_id) :
                  c.item_count = 0 /\ c.subtotal = 0
  IN /\ r.pc = "co_timeline" => stored
     /\ r.pc \in {"co_delete_cart_items", "co_zero_cart"} => stored /\ logged
     /\ r.pc \in {"co_cache_delete", "co_cache_delete_pattern"} =>
          stored /\ logged /\ zeroed
     /\ r.pc = "co_notify" =>
          /\ stored /\ logged /\ zeroed
          /\ r.user_id \notin DOMAIN redis.cart

(* C31: within one create_order call the token is allocated before any *)
(* record of the order is persisted, the initial timeline entry is     *)
(* written after the records, the cart is zeroed after the timeline    *)
(* entry, the cache is invalidated after the zeroing, and the queue is *)
(* notified only after all of these.                                   *)
C31_CreateOrderStepOrder ==
  \A s \in Slots :
    reqs[s].op = "create_order" =>
      TokenBeforeRecords(reqs[s]) /\ LaterStepsInOrder(reqs[s])

NoOrphanCustomizations(customs, lines) ==
  \A c \in customs : \E i \in lines : i.id = c.cart_item_id

(* C32: after remove_cart_item, clear_cart or the cart zeroing of      *)
(* create_order no cart customization record remains that refers to a  *)
(* cart line which no longer exists.                                   *)
C32_CustomizationsGoWithLine ==
  [][(/\ ServedAny({"remove_cart_item", "clear_cart", "create_order"})
      /\ reqs'[1].result = "ok") =>
       NoOrphanCustomizations(cart_item_customizations', cart_items')]_vars

(* C33: whenever no operation is in progress, a cache entry under      *)
(* cart:{user} or order:{id}, if present, equals the current durable   *)
(* record, for every interleaving of a read with a concurrent mutation *)
(* of the same cart or order.                                          *)
C33_CacheEntriesAreCurrent ==
  NoCartOperationInProgress =>
    /\ \A u \in DOMAIN redis.cart :
         \E c \in CartsOf(shopping_carts, u) :
           redis.cart[u] = CartResponse(World, c)
    /\ \A id \in DOMAIN redis.order :
         \E o \in OrdersWithId(orders, id) : redis.order[id] = o

(* C34: the contents of a cart are converted into at most one order:   *)
(* when two create_order calls of one user interleave, they never both *)
(* create an order from the same cart lines.                           *)
C34_CartOrderedOnce ==
  \A s, t \in Slots :
    (/\ s # t
     /\ reqs[s].op = "create_order" /\ reqs[t].op = "create_order"
     /\ reqs[s].user_id = reqs[t].user_id
     /\ OrdersWithId(orders, reqs[s].order_id) # {}
     /\ OrdersWithId(orders, reqs[t].order_id) # {}
     /\ reqs[s].items # {}) =>
      reqs[s].items # reqs[t].items

TerminalForCancel(id) ==
  \E o \in OrdersWithId(orders, id) : o.status \in {"COMPLETED", "REFUNDED"}

(* C35: for every interleaving of cancel_order with a concurrent       *)
(* update_order_status on the same order, a write of cancel_order      *)
(* never sets an order that has reached COMPLETED or REFUNDED to       *)
(* CANCELLED, and never sets its payment to CANCELLED.                 *)
C35_CancelKeepsTerminalStatus ==
  [][\A s \in Slots :
       (/\ reqs[s].op = "cancel_order"
        /\ Running(reqs[s])
        /\ reqs'[s] # reqs[s]
        /\ TerminalForCancel(reqs[s].order_id)) =>
         /\ orders' # orders =>
              \A o \in OrdersWithId(orders', reqs[s].order_id) :
                o.status # "CANCELLED"
         /\ payments' # payments =>
              \A p \in payments' :
                p.order_id = reqs[s].order_id => p.status # "CANCELLED"]_vars

(* C38: whenever no operation on an order is in progress, the status   *)
(* of the order's most recently appended timeline entry equals the     *)
(* order's current status, for every interleaving of concurrent        *)
(* update_order_status and cancel_order calls on that order.           *)
C38_LastTimelineEntryIsStatus ==
  NoCartOperationInProgress =>
    \A o \in orders :
      LET entries == TimelineOf(order_timeline, o.id)
      IN entries # <<>> => entries[Len(entries)].status = o.status

(* C36: after every completed add_to_cart or update_cart_item every   *)
(* cart line has total_price = unit_price * quantity, also when the    *)
(* catalog price of the item changed between two add_to_cart calls for *)
(* the same item.                                                      *)
C36_LineTotalIsPriceTimesQuantity ==
  [][ServedAny({"add_to_cart", "update_cart_item"}) =>
       \A i \in cart_items' : i.total_price = i.unit_price * i.quantity]_vars

CartHasLines(u) ==
  \E c \in CartsOf(shopping_carts, u) :
    c.item_count > 0 /\ \E i \in cart_items : i.cart_id = c.id

(* C37: tokens stored on earlier days never make a later create_order  *)
(* fail: on any day a create_order on a non-empty cart, run alone,     *)
(* succeeds for every prefix the allocator may draw, even when the     *)
(* same token string was issued on an earlier day.                     *)
C37_EarlierDaysNeverBlock ==
  [][(Served("create_order") /\ CartHasLines(reqs'[1].user_id)) =>
       reqs'[1].result = "ok"]_vars

====
